---- MODULE Spec2Model ----
(***************************************************************************)
(* Generalised normalisation (batch / layer / instance) built on an        *)
(* operation graph: apex/normalization/instance_norm.py.                   *)
(*                                                                         *)
(* Tensor elements are exact reals.  A real is kept as a polynomial over   *)
(* the irrational atoms rsqrt(q), q rational, so that equal reals are      *)
(* equal values.  The element type (Float, Half, ...) is carried beside    *)
(* the values.                                                             *)
(***************************************************************************)
EXTENDS Integers, Sequences, FiniteSets, TLC

----------------------------------------------------------------------------
(* Rationals <<n, d>>, d > 0, in lowest terms.                             *)

RECURSIVE GCD(_, _)
GCD(a, b) == IF b = 0 THEN a ELSE GCD(b, a % b)

Abs(a) == IF a < 0 THEN -a ELSE a

Rat(n, d) ==
    LET g == GCD(Abs(n), Abs(d))
        s == IF d < 0 THEN -1 ELSE 1
    IN  <<(s * n) \div g, (s * d) \div g>>

RZero == <<0, 1>>
ROne == <<1, 1>>
RAdd(a, b) == Rat(a[1] * b[2] + b[1] * a[2], a[2] * b[2])
RMul(a, b) == Rat(a[1] * b[1], a[2] * b[2])
RLess(a, b) == a[1] * b[2] < b[1] * a[2]

----------------------------------------------------------------------------
(* Reals: [q, r], a rational part q plus an irrational part r, a function  *)
(* from non-empty monomials over rsqrt atoms to non-zero coefficients.     *)
(* NonFinite stands for inf and NaN.                                       *)

NoTerms == <<>>
NonFinite == [q |-> <<0, 0>>, r |-> NoTerms]
Num(q) == [q |-> q, r |-> NoTerms]
VZero == Num(RZero)
Int2V(n) == Num(<<n, 1>>)
VOne == Int2V(1)
IsRational(a) == a.r = NoTerms /\ a.q[2] # 0
RatOf(a) == a.q

\* all terms of a real, the rational part under the empty monomial
Terms(a) == IF a.q[1] = 0 THEN a.r ELSE (<<>> :> a.q) @@ a.r

FromTerms(t) ==
    [q |-> IF <<>> \in DOMAIN t THEN t[<<>>] ELSE RZero,
     r |-> [m \in (DOMAIN t) \ {<<>>} |-> t[m]]]

\* product of two monomials: <<monomial, rational factor>>; rsqrt(q)^2 = 1/q
RECURSIVE MonoMul(_, _)
MonoMul(m1, m2) ==
    IF m1 = <<>> THEN <<m2, ROne>>
    ELSE IF m2 = <<>> THEN <<m1, ROne>>
    ELSE IF Head(m1) = Head(m2)
         THEN LET r == MonoMul(Tail(m1), Tail(m2))
                  q == Head(m1)
              IN  <<r[1], RMul(r[2], Rat(q[2], q[1]))>>
    ELSE IF RLess(Head(m1), Head(m2))
         THEN LET r == MonoMul(Tail(m1), m2) IN <<(<<Head(m1)>> \o r[1]), r[2]>>
         ELSE LET r == MonoMul(m1, Tail(m2)) IN <<(<<Head(m2)>> \o r[1]), r[2]>>

RECURSIVE RSum(_, _)
RSum(f, S) ==
    IF S = {} THEN RZero
    ELSE LET i == CHOOSE i \in S : TRUE IN RAdd(f[i], RSum(f, S \ {i}))

VAdd(a, b) ==
    IF a.q[2] = 0 \/ b.q[2] = 0 THEN NonFinite
    ELSE IF a.r = NoTerms THEN [q |-> RAdd(a.q, b.q), r |-> b.r]
    ELSE IF b.r = NoTerms THEN [q |-> RAdd(a.q, b.q), r |-> a.r]
    ELSE LET D == DOMAIN a.r \cup DOMAIN b.r
             c == [m \in D |-> RAdd(IF m \in DOMAIN a.r THEN a.r[m] ELSE RZero,
                                    IF m \in DOMAIN b.r THEN b.r[m] ELSE RZero)]
         IN  [q |-> RAdd(a.q, b.q), r |-> [m \in {k \in D : c[k][1] # 0} |-> c[m]]]

VNeg(a) ==
    IF a.q[2] = 0 THEN NonFinite
    ELSE [q |-> <<-a.q[1], a.q[2]>>, r |-> [m \in DOMAIN a.r |-> <<-a.r[m][1], a.r[m][2]>>]]

VSub(a, b) == VAdd(a, VNeg(b))

VScale(q, a) ==
    IF q[1] = 0 THEN VZero
    ELSE [q |-> RMul(q, a.q), r |-> [m \in DOMAIN a.r |-> RMul(q, a.r[m])]]

VMul(a, b) ==
    IF a.q[2] = 0 \/ b.q[2] = 0 THEN NonFinite
    ELSE IF a.r = NoTerms THEN VScale(a.q, b)
    ELSE IF b.r = NoTerms THEN VScale(b.q, a)
    ELSE LET ta == Terms(a)
             tb == Terms(b)
             P == (DOMAIN ta) \X (DOMAIN tb)
             t == [p \in P |-> MonoMul(p[1], p[2])]
             M == {t[p][1] : p \in P}
             c == [m \in M |->
                     RSum([p \in P |-> RMul(RMul(ta[p[1]], tb[p[2]]), t[p][2])],
                          {p \in P : t[p][1] = m})]
         IN  FromTerms([m \in {k \in M : c[k][1] # 0} |-> c[m]])

\* 1/a; defined on rationals (shape extents and their products)
VRecip(a) ==
    IF ~IsRational(a) \/ a.q[1] = 0 THEN NonFinite
    ELSE Num(Rat(a.q[2], a.q[1]))

VDiv(a, b) == VMul(a, VRecip(b))

\* 1/sqrt(a); inf at 0 and NaN below
VRsqrt(a) ==
    IF ~IsRational(a) \/ a.q[1] <= 0 THEN NonFinite
    ELSE IF a = VOne THEN VOne
    ELSE [q |-> RZero, r |-> (<<a.q>> :> ROne)]

RECURSIVE VSum(_, _)
VSum(f, S) ==
    IF S = {} THEN VZero
    ELSE LET i == CHOOSE i \in S : TRUE IN VAdd(f[i], VSum(f, S \ {i}))

----------------------------------------------------------------------------
(* Tensors of the graph: [shape, v, dtype, scalar].  Axes and indices are  *)
(* 0-based as in the source; an index is a sequence of per-axis positions. *)

None == [none |-> TRUE]

\* the elements of a tensor, computed once when the tensor is produced
Elements(f) == f @@ <<>>

Range(s) == {s[i] : i \in DOMAIN s}

RangeSeq(n) == [i \in 1..n |-> i - 1]

RECURSIVE Indices(_)
Indices(shape) ==
    IF shape = <<>> THEN {<<>>}
    ELSE {<<i>> \o r : i \in 0..(shape[1] - 1), r \in Indices(Tail(shape))}

RECURSIVE Prod(_)
Prod(s) == IF s = <<>> THEN 1 ELSE Head(s) * Prod(Tail(s))

At(s, ax) == s[ax + 1]

Project(idx, axes) == [i \in 1..Len(axes) |-> At(idx, axes[i])]

Max(a, b) == IF a < b THEN b ELSE a

IsReduced(dt) == dt \in {"Half", "BFloat16"}

\* DataType of a torch element type
torch2datatype(dt) == dt

\* element type of an elementwise result: a scalar never widens a tensor
Promote(a, b) ==
    IF a.scalar /\ ~b.scalar THEN b.dtype
    ELSE IF b.scalar /\ ~a.scalar THEN a.dtype
    ELSE IF "Double" \in {a.dtype, b.dtype} THEN "Double"
    ELSE IF "Float" \in {a.dtype, b.dtype} THEN "Float"
    ELSE a.dtype

Scalar(val, dt) == [shape |-> <<>>, v |-> (<<>> :> val), dtype |-> dt, scalar |-> TRUE]

\* operand shapes are aligned at the trailing axis; an extent of 1 is replicated
PadShape(shape, r) ==
    [i \in 1..r |-> IF i <= r - Len(shape) THEN 1 ELSE shape[i - (r - Len(shape))]]

BinaryShape(a, b) ==
    [i \in 1..Max(Len(a.shape), Len(b.shape)) |->
        Max(PadShape(a.shape, Max(Len(a.shape), Len(b.shape)))[i],
            PadShape(b.shape, Max(Len(a.shape), Len(b.shape)))[i])]

BinaryOK(a, b) ==
    \A i \in 1..Max(Len(a.shape), Len(b.shape)) :
        \/ PadShape(a.shape, Max(Len(a.shape), Len(b.shape)))[i]
             = PadShape(b.shape, Max(Len(a.shape), Len(b.shape)))[i]
        \/ PadShape(a.shape, Max(Len(a.shape), Len(b.shape)))[i] = 1
        \/ PadShape(b.shape, Max(Len(a.shape), Len(b.shape)))[i] = 1

OperandIdx(idx, shape) ==
    [i \in 1..Len(shape) |-> IF shape[i] = 1 THEN 0 ELSE idx[i + (Len(idx) - Len(shape))]]

\* fd.ops.add, sub, mul and div on two values. div is the real quotient for every
\* operand type: whether nvfuser truncates the quotient of two Int scalars (as in
\* num_features / (num_features - 1)) is not decided by the source.
BinaryOp(op, x, y) ==
    CASE op = "add" -> VAdd(x, y)
      [] op = "sub" -> VSub(x, y)
      [] op = "mul" -> VMul(x, y)
      [] op = "div" -> VDiv(x, y)

Binary(op, a, b) ==
    [shape |-> BinaryShape(a, b),
     v |-> Elements([idx \in Indices(BinaryShape(a, b)) |->
              BinaryOp(op, a.v[OperandIdx(idx, a.shape)], b.v[OperandIdx(idx, b.shape)])]),
     dtype |-> Promote(a, b),
     scalar |-> a.scalar /\ b.scalar]

\* rsqrt and reciprocal: an integer operand gives a floating result
Unary(op, a) ==
    [a EXCEPT !.v = Elements([idx \in DOMAIN a.v |->
                                 IF op = "rsqrt" THEN VRsqrt(a.v[idx]) ELSE VRecip(a.v[idx])]),
              !.dtype = IF a.dtype = "Int" THEN "Double" ELSE a.dtype]

\* the axes of 0..rank-1 outside `axes`, ascending
KeptAxes(rank, axes) == SelectSeq(RangeSeq(rank), LAMBDA ax : ax \notin Range(axes))

\* sum over `axes`; the reduced axes are dropped
Sum(a, axes) ==
    [shape |-> Project(a.shape, KeptAxes(Len(a.shape), axes)),
     v |-> Elements([k \in Indices(Project(a.shape, KeptAxes(Len(a.shape), axes))) |->
              VSum(a.v, {i \in DOMAIN a.v : Project(i, KeptAxes(Len(a.shape), axes)) = k})]),
     dtype |-> a.dtype,
     scalar |-> FALSE]

\* mean over `axes`
Mean(a, axes) ==
    [shape |-> Project(a.shape, KeptAxes(Len(a.shape), axes)),
     v |-> Elements([k \in Indices(Project(a.shape, KeptAxes(Len(a.shape), axes))) |->
              VDiv(VSum(a.v, {i \in DOMAIN a.v : Project(i, KeptAxes(Len(a.shape), axes)) = k}),
                   Int2V(Prod(Project(a.shape, axes))))]),
     dtype |-> a.dtype,
     scalar |-> FALSE]

\* squared deviations from the mean m over `axes`
SqDev(a, m, axes) ==
    [a EXCEPT !.v = Elements([i \in DOMAIN a.v |->
        LET d == VSub(a.v[i], m.v[Project(i, KeptAxes(Len(a.shape), axes))])
        IN  VMul(d, d)])]

\* every element of s over n; not finite when n is not positive
Over(s, n) ==
    [s EXCEPT !.v = Elements([k \in DOMAIN s.v |->
                                 IF n <= 0 THEN NonFinite ELSE VDiv(s.v[k], Int2V(n))])]

\* variance over `axes` around the mean m: squared deviations over (count - correction)
Var(a, m, axes, correction) ==
    Over(Sum(SqDev(a, m, axes), axes), Prod(Project(a.shape, axes)) - correction)

\* axis i of `a` becomes axis dims[i] of the result; the other axes replicate
BroadcastOK(a, shape, dims) ==
    /\ Len(dims) = Len(a.shape)
    /\ \A i \in 1..Len(dims) :
         /\ dims[i] \in 0..(Len(shape) - 1)
         /\ a.shape[i] = At(shape, dims[i]) \/ a.shape[i] = 1

BroadcastInDim(a, shape, dims) ==
    [shape |-> shape,
     v |-> Elements([idx \in Indices(shape) |->
              a.v[[i \in 1..Len(dims) |->
                     IF a.shape[i] = 1 THEN 0 ELSE At(idx, dims[i])]]]),
     dtype |-> a.dtype,
     scalar |-> FALSE]

----------------------------------------------------------------------------
(* torch tensors: [shape, stride, v, dtype], v indexed by logical position *)

\* strides of a tensor packed with axis order[1] innermost, order[2] next, ...
RECURSIVE PackedStride(_, _, _)
PackedStride(shape, order, expected) ==
    IF order = <<>> THEN [i \in 1..Len(shape) |-> 0]
    ELSE [PackedStride(shape, Tail(order), expected * At(shape, Head(order)))
             EXCEPT ![Head(order) + 1] = expected]

\* axis orders, innermost first
ContiguousOrder(rank) == [i \in 1..rank |-> rank - i]
ChannelsLastOrder(rank) == <<1>> \o [i \in 1..(rank - 2) |-> rank - i] \o <<0>>

TorchTensor(shape, order, vals, dt) ==
    [shape |-> shape, stride |-> PackedStride(shape, order, 1), v |-> Elements(vals),
     dtype |-> dt]

\* torch's stride test: axes of extent 1 are skipped
RECURSIVE StridesMatch(_, _, _)
StridesMatch(t, order, expected) ==
    IF order = <<>> THEN TRUE
    ELSE IF At(t.shape, Head(order)) = 1 THEN StridesMatch(t, Tail(order), expected)
    ELSE /\ At(t.stride, Head(order)) = expected
         /\ StridesMatch(t, Tail(order), expected * At(t.shape, Head(order)))

\* x.is_contiguous(memory_format=torch.channels_last)
is_channels_last(t) == Len(t.shape) = 4 /\ StridesMatch(t, ChannelsLastOrder(4), 1)
\* x.is_contiguous(memory_format=torch.channels_last_3d)
is_channels_last_3d(t) == Len(t.shape) = 5 /\ StridesMatch(t, ChannelsLastOrder(5), 1)

\* axis i of the result is axis order[i] of t
permute(t, order) ==
    [shape |-> [i \in 1..Len(order) |-> At(t.shape, order[i])],
     stride |-> [i \in 1..Len(order) |-> At(t.stride, order[i])],
     v |-> Elements([idx \in Indices([i \in 1..Len(order) |-> At(t.shape, order[i])]) |->
              t.v[[j \in 1..Len(order) |->
                     idx[CHOOSE i \in 1..Len(order) : order[i] = j - 1]]]]),
     dtype |-> t.dtype]

\* an entry permutation that leaves every axis where it is
KeepOrder(rank) == [i \in 1..rank |-> i - 1]

\* order = [0] + [i for i in range(2, len(x.shape))] + [1]
ToChannelsLastOrder(rank) == <<0>> \o [i \in 1..(rank - 2) |-> i + 1] \o <<1>>
\* the permutation of entry applied a second time instead of its inverse
MoveChannelLastAgain(rank) == <<0>> \o [i \in 1..(rank - 2) |-> i + 1] \o <<1>>

\* order = [0, len(x.shape) - 1] + [i for i in range(1, len(x.shape) - 1)]
FromChannelsLastOrder(rank) == <<0, rank - 1>> \o [i \in 1..(rank - 2) |-> i]

----------------------------------------------------------------------------
(* FusionDefinition: the graph is the sequence of the operations recorded  *)
(* while it is defined; fd.execute binds the runtime inputs in order and   *)
(* evaluates the operations.  Names are the Python variables of the source.*)

Ins ==
    [op |-> "", out |-> "", out2 |-> "", a |-> "", b |-> "", axes |-> <<>>, ndim |-> 0,
     correction |-> 0, dt |-> "", val |-> VZero, alias |-> ""]

\* names of the entries of dyn_shape = fd.ops.tensor_sizes(x)
dyn_shape ==
    <<"dyn_shape[0]", "dyn_shape[1]", "dyn_shape[2]", "dyn_shape[3]", "dyn_shape[4]",
      "dyn_shape[5]", "dyn_shape[6]", "dyn_shape[7]">>

fd_define_tensor(out, ndim, dt) ==
    <<[Ins EXCEPT !.op = "define_tensor", !.out = out, !.ndim = ndim, !.dt = dt]>>
fd_define_scalar(out, dt) ==
    <<[Ins EXCEPT !.op = "define_scalar", !.out = out, !.dt = dt]>>
fd_define_constant(out, val, dt) ==
    <<[Ins EXCEPT !.op = "define_constant", !.out = out, !.val = val, !.dt = dt]>>
fd_ops_tensor_sizes(a) ==
    <<[Ins EXCEPT !.op = "tensor_sizes", !.a = a]>>
fd_ops_cast(out, a, dt) ==
    <<[Ins EXCEPT !.op = "cast", !.out = out, !.a = a, !.dt = dt]>>
fd_ops_add(out, a, b) == <<[Ins EXCEPT !.op = "add", !.out = out, !.a = a, !.b = b]>>
fd_ops_sub(out, a, b) == <<[Ins EXCEPT !.op = "sub", !.out = out, !.a = a, !.b = b]>>
fd_ops_mul(out, a, b) == <<[Ins EXCEPT !.op = "mul", !.out = out, !.a = a, !.b = b]>>
fd_ops_div(out, a, b) == <<[Ins EXCEPT !.op = "div", !.out = out, !.a = a, !.b = b]>>
fd_ops_rsqrt(out, a) == <<[Ins EXCEPT !.op = "rsqrt", !.out = out, !.a = a]>>
fd_ops_reciprocal(out, a) == <<[Ins EXCEPT !.op = "reciprocal", !.out = out, !.a = a]>>
fd_ops_sum(out, a, axes) ==
    <<[Ins EXCEPT !.op = "sum", !.out = out, !.a = a, !.axes = axes]>>
\* x_var, x_mean = fd.ops.var_mean(a, axes, correction)
fd_ops_var_mean(out, out2, a, axes, correction) ==
    <<[Ins EXCEPT !.op = "var_mean", !.out = out, !.out2 = out2, !.a = a, !.axes = axes,
                  !.correction = correction]>>
\* fd.ops.broadcast_in_dim(a, dyn_shape, dims), dyn_shape being the sizes of `like`
fd_ops_broadcast_in_dim(out, a, like, dims) ==
    <<[Ins EXCEPT !.op = "broadcast_in_dim", !.out = out, !.a = a, !.b = like,
                  !.axes = dims]>>
fd_add_output(a, alias) ==
    <<[Ins EXCEPT !.op = "add_output", !.a = a, !.alias = alias]>>
\* a Python assignment out = a: another name for the same graph value, no operation
assign(out, a) ==
    <<[Ins EXCEPT !.op = "assign", !.out = out, !.a = a]>>

\* Create a graph tensor with the rank and element type of torch tensor t
partially_contig_tensor(out, t) ==
    fd_define_tensor(out, Len(t.shape), torch2datatype(t.dtype))

IsTensor(i) == "shape" \in DOMAIN i

Reductions == {"sum", "var_mean"}

\* whether the engine accepts operation ins on the values bound so far
WellFormed(ins, env, inputs, next) ==
    CASE ins.op = "define_tensor" ->
            /\ next <= Len(inputs)
            /\ IsTensor(inputs[next])
            /\ Len(inputs[next].shape) = ins.ndim
            /\ torch2datatype(inputs[next].dtype) = ins.dt
      [] ins.op = "define_scalar" -> next <= Len(inputs) /\ ~IsTensor(inputs[next])
      [] ins.op \in {"add", "sub", "mul", "div"} -> BinaryOK(env[ins.a], env[ins.b])
      [] ins.op \in Reductions ->
            Range(ins.axes) \subseteq 0..(Len(env[ins.a].shape) - 1)
      [] ins.op = "broadcast_in_dim" ->
            BroadcastOK(env[ins.a], env[ins.b].shape, ins.axes)
      [] OTHER -> TRUE

\* the names operation ins binds, with their values
Bindings(ins, env, inputs, next) ==
    CASE ins.op = "define_tensor" ->
            ins.out :> [shape |-> inputs[next].shape, v |-> inputs[next].v,
                        dtype |-> ins.dt, scalar |-> FALSE]
      [] ins.op = "define_scalar" -> ins.out :> Scalar(inputs[next].scalar, ins.dt)
      [] ins.op = "define_constant" -> ins.out :> Scalar(ins.val, ins.dt)
      [] ins.op = "tensor_sizes" ->
            [n \in {dyn_shape[i] : i \in 1..Len(env[ins.a].shape)} |->
                Scalar(Int2V(env[ins.a].shape[CHOOSE i \in 1..Len(env[ins.a].shape) :
                                                 dyn_shape[i] = n]), "Int")]
      [] ins.op = "cast" -> ins.out :> [env[ins.a] EXCEPT !.dtype = ins.dt]
      [] ins.op = "assign" -> ins.out :> env[ins.a]
      [] ins.op = "add" -> ins.out :> Binary("add", env[ins.a], env[ins.b])
      [] ins.op = "sub" -> ins.out :> Binary("sub", env[ins.a], env[ins.b])
      [] ins.op = "mul" -> ins.out :> Binary("mul", env[ins.a], env[ins.b])
      [] ins.op = "div" -> ins.out :> Binary("div", env[ins.a], env[ins.b])
      [] ins.op = "rsqrt" -> ins.out :> Unary("rsqrt", env[ins.a])
      [] ins.op = "reciprocal" -> ins.out :> Unary("reciprocal", env[ins.a])
      [] ins.op = "sum" -> ins.out :> Sum(env[ins.a], ins.axes)
      [] ins.op = "var_mean" ->
            LET m == Mean(env[ins.a], ins.axes)
            IN  (ins.out2 :> m) @@ (ins.out :> Var(env[ins.a], m, ins.axes, ins.correction))
      [] ins.op = "broadcast_in_dim" ->
            ins.out :> BroadcastInDim(env[ins.a], env[ins.b].shape, ins.axes)

\* one operation: st = [env, next, outputs, reduced, ok]
Step(ins, st, inputs) ==
    IF ~st.ok THEN st
    ELSE IF ~WellFormed(ins, st.env, inputs, st.next) THEN [st EXCEPT !.ok = FALSE]
    ELSE IF ins.op = "add_output"
    THEN [st EXCEPT !.outputs = Append(@, [alias |-> ins.alias, val |-> st.env[ins.a]])]
    ELSE [env |-> Bindings(ins, st.env, inputs, st.next) @@ st.env,
          next |-> IF ins.op \in {"define_tensor", "define_scalar"}
                   THEN st.next + 1 ELSE st.next,
          outputs |-> st.outputs,
          reduced |-> IF ins.op \in Reductions
                      THEN Append(st.reduced, [op |-> ins.op, a |-> ins.a,
                                               dtype |-> st.env[ins.a].dtype,
                                               shape |-> st.env[ins.a].shape,
                                               axes |-> ins.axes])
                      ELSE st.reduced,
          ok |-> TRUE]

\* the operations from position i on, each applied to the state its predecessor left
RECURSIVE Run(_, _, _, _)
Run(fd, i, st, inputs) ==
    IF i > Len(fd) THEN st
    ELSE CHOOSE r \in {Run(fd, i + 1, s, inputs) : s \in {Step(fd[i], st, inputs)}} : TRUE

\* fd.execute(inputs)
fd_execute(fd, inputs) ==
    Run(fd, 1, [env |-> <<>>, next |-> 1, outputs |-> <<>>, reduced |-> <<>>, ok |-> TRUE],
        inputs)

\* a result of fd.execute: a freshly allocated, packed torch tensor
Executed(g) == TorchTensor(g.shape, ContiguousOrder(Len(g.shape)), g.v, g.dtype)

\* the results fd.execute returns: the outputs not aliased to an input, in order
Returned(outputs) == SelectSeq(outputs, LAMBDA o : o.alias = "")

\* the buffer after fd.execute: overwritten when an output is aliased to it
Written(outputs, name, buf) ==
    IF \E i \in DOMAIN outputs : outputs[i].alias = name
    THEN [buf EXCEPT !.v = outputs[CHOOSE i \in DOMAIN outputs :
                                      outputs[i].alias = name].val.v]
    ELSE buf
----------------------------------------------------------------------------
(* norm_fusion_forward: the operations it adds to the graph.  A Tensor     *)
(* argument is [name, ndim], or None.                                      *)

Tensor(name, t) == IF t = None THEN None ELSE [name |-> name, ndim |-> Len(t.shape)]

\* a resolver that ignores the layout flag and always takes the channel at index 1
FwdAxesChannelSecond(num_dims, channels_last, stat_axes) ==
    [batch_dim |-> 0,
     channel_dim |-> 1,
     stat_dims |-> (IF "BATCH" \in stat_axes THEN <<0>> ELSE <<>>)
                   \o (IF "CHANNEL" \in stat_axes THEN <<1>> ELSE <<>>),
     stat_dims_nobatch |-> IF "CHANNEL" \in stat_axes THEN <<1>> ELSE <<>>,
     x_reduction_axes |->
         SelectSeq(RangeSeq(num_dims),
                   LAMBDA ax : ~(\/ ("BATCH" \in stat_axes /\ ax = 0)
                                 \/ ("CHANNEL" \in stat_axes /\ ax = 1)))]

\* Axis Role Resolver of the forward graph
FwdAxes(num_dims, channels_last, stat_axes) ==
    LET batch_dim == 0
        channel_dim == IF channels_last THEN num_dims - 1 ELSE 1
        stat_dims == (IF "BATCH" \in stat_axes THEN <<batch_dim>> ELSE <<>>)
                     \o (IF "CHANNEL" \in stat_axes THEN <<channel_dim>> ELSE <<>>)
        stat_dims_nobatch == IF "CHANNEL" \in stat_axes THEN <<channel_dim>> ELSE <<>>
    IN  [batch_dim |-> batch_dim,
         channel_dim |-> channel_dim,
         stat_dims |-> stat_dims,
         stat_dims_nobatch |-> stat_dims_nobatch,
         x_reduction_axes |->
             SelectSeq(RangeSeq(num_dims), LAMBDA ax : ax \notin Range(stat_dims))]

\* for ax in axes: acc = fd.ops.mul(acc, dyn_shape[ax])
RECURSIVE MulExtents(_, _)
MulExtents(acc, axes) ==
    IF axes = <<>> THEN <<>>
    ELSE fd_ops_mul(acc, acc, At(dyn_shape, Head(axes))) \o MulExtents(acc, Tail(axes))

\* dyn_shape, num_stats and num_features
FwdSizes(x, ax, stat_axes) ==
    fd_ops_tensor_sizes(x.name)
    \o fd_define_constant("num_stats", VOne, "Int")
    \o (IF "BATCH" \in stat_axes
        THEN fd_ops_mul("num_stats", "num_stats", At(dyn_shape, ax.batch_dim)) ELSE <<>>)
    \o (IF "CHANNEL" \in stat_axes
        THEN fd_ops_mul("num_stats", "num_stats", At(dyn_shape, ax.channel_dim)) ELSE <<>>)
    \o fd_define_constant("num_features", VOne, "Int")
    \o MulExtents("num_features", ax.x_reduction_axes)

\* a forward that computes statistics from the input in every mode
FwdAlwaysInputStats(use_input_stats, running_mean) == TRUE

\* whether statistics are computed from the input
FwdUsesInputStats(use_input_stats, running_mean) == use_input_stats \/ running_mean = None

RunningMeanSummed(running_mean, momentum, batch_size, x_datatype, stat_axes) ==
    fd_ops_mul("current_mean_hat", "x_mean", momentum)
    \o fd_ops_mul("mean_hat", running_mean.name, "rev_momentum")
    \o fd_ops_add("new_mean_hat", "mean_hat", "current_mean_hat")
    \o (IF "BATCH" \in stat_axes
        THEN fd_ops_sum("new_mean_channels_only", "new_mean_hat", <<0>>)
        ELSE assign("new_mean_channels_only", "new_mean_hat"))
    \o fd_ops_reciprocal("rev_batch_size", batch_size)
    \o fd_add_output("new_mean_channels_only", running_mean.name)

\* the running mean: momentum*x_mean + (1-momentum)*running_mean, written over running_mean
RunningMeanUpdate(running_mean, momentum, batch_size, x_datatype, stat_axes) ==
    fd_ops_mul("current_mean_hat", "x_mean", momentum)
    \o fd_ops_mul("mean_hat", running_mean.name, "rev_momentum")
    \o fd_ops_add("new_mean_hat", "mean_hat", "current_mean_hat")
    \o (IF "BATCH" \in stat_axes
        THEN fd_ops_sum("new_mean_sum", "new_mean_hat", <<0>>)
        ELSE assign("new_mean_sum", "new_mean_hat"))
    \o fd_ops_reciprocal("rev_batch_size", batch_size)
    \o fd_ops_mul("new_mean_channels_only", "new_mean_sum", "rev_batch_size")
    \o (IF IsReduced(x_datatype)
        THEN fd_ops_cast("new_mean_channels_only", "new_mean_channels_only", x_datatype)
        ELSE <<>>)
    \o fd_add_output("new_mean_channels_only", running_mean.name)

\* the variance merged into the running variance
XVarUnbiased(unbiased) ==
    IF ~unbiased
    THEN fd_define_constant("1", VOne, "Int")
         \o fd_ops_sub("num_features - 1", "num_features", "1")
         \o fd_ops_div("b2ub", "num_features", "num_features - 1")
         \o fd_ops_mul("x_var_unbiased", "x_var", "b2ub")
    ELSE assign("x_var_unbiased", "x_var")

\* the running variance, as the running mean
RunningVarUpdate(running_var, momentum, x_datatype, stat_axes) ==
    fd_ops_mul("current_var_hat", "x_var_unbiased", momentum)
    \o fd_ops_mul("var_hat", running_var.name, "rev_momentum")
    \o fd_ops_add("new_var_hat", "var_hat", "current_var_hat")
    \o (IF "BATCH" \in stat_axes
        THEN fd_ops_sum("new_var_sum", "new_var_hat", <<0>>)
        ELSE assign("new_var_sum", "new_var_hat"))
    \o fd_ops_mul("new_var_channels_only", "new_var_sum", "rev_batch_size")
    \o (IF IsReduced(x_datatype)
        THEN fd_ops_cast("new_var_channels_only", "new_var_channels_only", x_datatype)
        ELSE <<>>)
    \o fd_add_output("new_var_channels_only", running_var.name)

\* statistics taken over the batch axis as well: one mean and variance per channel
FwdInputStatsOverBatch(x, running_mean, running_var, eps, momentum, x_datatype, unbiased, stat_axes, ax) ==
    fd_ops_var_mean("x_var", "x_mean", x.name,
                    SelectSeq(RangeSeq(x.ndim), LAMBDA a : a \notin Range(ax.stat_dims_nobatch)),
                    IF unbiased THEN 1 ELSE 0)
    \o assign("mean", "x_mean")
    \o fd_ops_broadcast_in_dim("mean_bcast", "mean", x.name, ax.stat_dims_nobatch)
    \o fd_ops_sub("x_sub_mean", x.name, "mean_bcast")
    \o fd_ops_add("var_eps", "x_var", eps)
    \o fd_ops_rsqrt("invstd", "var_eps")
    \o fd_ops_broadcast_in_dim("invstd_bcast", "invstd", x.name, ax.stat_dims_nobatch)
    \o fd_ops_mul("x_normed", "x_sub_mean", "invstd_bcast")

\* statistics of this batch, the running statistics updated when they are given
FwdInputStats(x, running_mean, running_var, eps, momentum, x_datatype, unbiased, stat_axes, ax) ==
    fd_ops_var_mean("x_var", "x_mean", x.name, ax.x_reduction_axes,
                    IF unbiased THEN 1 ELSE 0)
    \o (IF running_mean # None
        THEN fd_define_constant("one", VOne, "Double")
             \o fd_ops_sub("rev_momentum", "one", momentum)
             \o RunningMeanUpdate(running_mean, momentum, At(dyn_shape, ax.batch_dim),
                                  x_datatype, stat_axes)
             \o XVarUnbiased(unbiased)
             \o RunningVarUpdate(running_var, momentum, x_datatype, stat_axes)
        ELSE <<>>)
    \o assign("mean", "x_mean")
    \o fd_ops_broadcast_in_dim("mean_bcast", "mean", x.name, ax.stat_dims)
    \o fd_ops_sub("x_sub_mean", x.name, "mean_bcast")
    \o fd_ops_add("var_eps", "x_var", eps)
    \o fd_ops_rsqrt("invstd", "var_eps")
    \o fd_ops_broadcast_in_dim("invstd_bcast", "invstd", x.name, ax.stat_dims)
    \o fd_ops_mul("x_normed", "x_sub_mean", "invstd_bcast")

FwdRunningStatsNoEps(x, running_mean, running_var, eps, ax) ==
    fd_ops_broadcast_in_dim("r_mean_bcast", running_mean.name, x.name, ax.stat_dims_nobatch)
    \o fd_ops_sub("x_sub_mean", x.name, "r_mean_bcast")
    \o fd_ops_rsqrt("invstd", running_var.name)
    \o fd_ops_broadcast_in_dim("invstd_bcast", "invstd", x.name, ax.stat_dims_nobatch)
    \o assign("mean", running_mean.name)
    \o fd_ops_mul("x_normed", "x_sub_mean", "invstd_bcast")

\* inference mode with running stats
FwdRunningStats(x, running_mean, running_var, eps, ax) ==
    fd_ops_broadcast_in_dim("r_mean_bcast", running_mean.name, x.name, ax.stat_dims_nobatch)
    \o fd_ops_sub("x_sub_mean", x.name, "r_mean_bcast")
    \o fd_ops_add("var_eps", running_var.name, eps)
    \o fd_ops_rsqrt("invstd", "var_eps")
    \o fd_ops_broadcast_in_dim("invstd_bcast", "invstd", x.name, ax.stat_dims_nobatch)
    \o assign("mean", running_mean.name)
    \o fd_ops_mul("x_normed", "x_sub_mean", "invstd_bcast")

\* scale by weight, shift by bias
FwdAffine(x, weight, bias, ax) ==
    (IF weight # None
     THEN fd_ops_broadcast_in_dim("weight_bcast", weight.name, x.name, ax.stat_dims_nobatch)
          \o fd_ops_mul("x_normed", "x_normed", "weight_bcast")
     ELSE <<>>)
    \o (IF bias # None
        THEN fd_ops_broadcast_in_dim("bias_bcast", bias.name, x.name, ax.stat_dims_nobatch)
             \o fd_ops_add("x_normed", "x_normed", "bias_bcast")
        ELSE <<>>)

\* returns the operations added and the names of x_normed, mean and invstd
norm_fusion_forward(x, weight, bias, running_mean, running_var, eps, use_input_stats, momentum, channels_last, x_datatype, unbiased, stat_axes) ==
    IF (running_var = None) # (running_mean = None)
    THEN [err |-> "AssertionError"]
    ELSE [err |-> "",
          ops |->
              FwdSizes(x, FwdAxes(x.ndim, channels_last, stat_axes), stat_axes)
              \o (IF FwdUsesInputStats(use_input_stats, running_mean)
                  THEN FwdInputStats(x, running_mean, running_var, eps, momentum,
                                     x_datatype, unbiased, stat_axes,
                                     FwdAxes(x.ndim, channels_last, stat_axes))
                  ELSE FwdRunningStats(x, running_mean, running_var, eps,
                                       FwdAxes(x.ndim, channels_last, stat_axes)))
              \o FwdAffine(x, weight, bias, FwdAxes(x.ndim, channels_last, stat_axes)),
          x_normed |-> "x_normed", mean |-> "mean", invstd |-> "invstd"]

----------------------------------------------------------------------------
(* NormNVFuserFunction.forward                                             *)

\* tv = partially_contig_tensor(fd, t) for a tensor that is given
DefineOptional(name, t) == IF t = None THEN <<>> ELSE partially_contig_tensor(name, t)

\* tv = fd.ops.cast(tv, DataType.Float) for a given tensor of reduced precision
Upcast(name, t) ==
    IF t # None /\ IsReduced(t.dtype) THEN fd_ops_cast(name, name, "Float") ELSE <<>>

\* graph inputs and casts up to the call of norm_fusion_forward
FwdDefineInputs(x, weight, bias, running_mean, running_var) ==
    partially_contig_tensor("x", x)
    \o DefineOptional("weight", weight)
    \o DefineOptional("bias", bias)
    \o (IF running_mean = None THEN <<>>
        ELSE partially_contig_tensor("running_mean", running_mean)
             \o partially_contig_tensor("running_var", running_var)
             \o Upcast("running_mean", running_mean)
             \o Upcast("running_var", running_var))
    \o fd_define_scalar("momentum", "Double")
    \o fd_define_scalar("eps", "Double")
    \o Upcast("x", x)
    \o Upcast("weight", weight)
    \o Upcast("bias", bias)

FwdInputsBiasFirst(x, weight, bias, running_mean, running_var, momentum, eps) ==
    <<x>>
    \o (IF bias # None THEN <<bias>> ELSE <<>>)
    \o (IF weight # None THEN <<weight>> ELSE <<>>)
    \o (IF running_mean = None THEN <<>> ELSE <<running_mean, running_var>>)
    \o <<[scalar |-> momentum], [scalar |-> eps]>>

\* the runtime values appended to `inputs`
FwdInputs(x, weight, bias, running_mean, running_var, momentum, eps) ==
    <<x>>
    \o (IF weight # None THEN <<weight>> ELSE <<>>)
    \o (IF bias # None THEN <<bias>> ELSE <<>>)
    \o (IF running_mean = None THEN <<>> ELSE <<running_mean, running_var>>)
    \o <<[scalar |-> momentum], [scalar |-> eps]>>

\* casts back to a reduced input type, and the three outputs
FwdOutputs(g, x_datatype) ==
    (IF IsReduced(x_datatype)
     THEN fd_ops_cast("out", g.x_normed, x_datatype)
          \o fd_ops_cast("mean", g.mean, x_datatype)
          \o fd_ops_cast("invstd", g.invstd, x_datatype)
     ELSE assign("out", g.x_normed) \o assign("mean", g.mean) \o assign("invstd", g.invstd))
    \o fd_add_output("out", "")
    \o fd_add_output("mean", "")
    \o fd_add_output("invstd", "")

\* the graph values kept with the result of a forward call
FwdKept == {"x_mean", "x_var", "x_var_unbiased"}

Keep(env, names) == [n \in (DOMAIN env) \cap names |-> env[n]]

\* the graph around the operations g that norm_fusion_forward added
FwdAssemble(x, weight, bias, running_mean, running_var, g) ==
    IF g.err # "" THEN [err |-> g.err]
    ELSE [err |-> "",
          fd |-> FwdDefineInputs(x, weight, bias, running_mean, running_var)
                 \o g.ops
                 \o FwdOutputs(g, torch2datatype(x.dtype))]

\* the `with FusionDefinition() as fd:` block
FwdDefinition(x, weight, bias, running_mean, running_var, use_input_stats, channels_last, unbiased, stat_axes) ==
    IF running_mean # None /\ running_var = None THEN [err |-> "AssertionError"]
    ELSE FwdAssemble(x, weight, bias, running_mean, running_var,
                     norm_fusion_forward(
                         Tensor("x", x), Tensor("weight", weight), Tensor("bias", bias),
                         Tensor("running_mean", running_mean),
                         IF running_mean = None THEN None
                         ELSE Tensor("running_var", running_var),
                         "eps", use_input_stats, "momentum", channels_last,
                         torch2datatype(x.dtype), unbiased, stat_axes))

\* a check that lets a tensor of any rank and memory order through
FwdLayoutAny(out, xorig) == TRUE

\* the checks on the tensor that is returned for a channels-last input
FwdLayoutOK(out, xorig) ==
    CASE Len(out.shape) = 4 -> is_channels_last(out) /\ is_channels_last(xorig)
      [] Len(out.shape) = 5 -> is_channels_last_3d(out) /\ is_channels_last_3d(xorig)
      [] OTHER -> FALSE

\* the return of forward: a channels-last result is permuted back and checked
FwdReturn(out, xorig, channels_last) ==
    IF ~channels_last THEN [err |-> "", out |-> out]
    ELSE [err |-> IF FwdLayoutOK(permute(out, FromChannelsLastOrder(Len(out.shape))), xorig)
                  THEN "" ELSE "AssertionError",
          out |-> permute(out, FromChannelsLastOrder(Len(out.shape)))]

\* from fd.execute to the return
FwdExecute(xorig, x, weight, bias, running_mean, running_var, use_input_stats, channels_last, stat_axes, fd, e) ==
    IF ~e.ok \/ e.next # Len(FwdInputs(x, weight, bias, running_mean, running_var, 0, 0)) + 1
    THEN [err |-> "EngineError", stage |-> "execute", fd |-> fd]
    ELSE LET ret == Returned(e.outputs)
             out == Executed(ret[1].val)
             written_mean == IF running_mean = None THEN None
                             ELSE Written(e.outputs, "running_mean", running_mean)
             written_var == IF running_var = None \/ running_mean = None THEN running_var
                            ELSE Written(e.outputs, "running_var", running_var)
         IN  [err |-> FwdReturn(out, xorig, channels_last).err,
              stage |-> "return",
              fd |-> fd,
              kept |-> Keep(e.env, FwdKept),
              reduced |-> e.reduced,
              outputs |-> [i \in DOMAIN e.outputs |->
                              [alias |-> e.outputs[i].alias,
                               dtype |-> e.outputs[i].val.dtype]],
              out |-> FwdReturn(out, xorig, channels_last).out,
              running_mean |-> written_mean,
              running_var |-> written_var,
              ctx |-> [stat_axes |-> stat_axes,
                       use_input_stats |-> use_input_stats,
                       channels_last |-> channels_last,
                       x |-> x, weight |-> weight, bias |-> bias,
                       running_mean |-> written_mean,
                       running_var |-> written_var,
                       mean |-> Executed(ret[2].val),
                       invstd |-> Executed(ret[3].val)]]

\* the definition d, executed unless defining it raised
FwdDefined(xorig, x, weight, bias, running_mean, running_var, use_input_stats, momentum, eps, stat_axes, channels_last, d) ==
    IF d.err # "" THEN [err |-> d.err, stage |-> "define"]
    ELSE FwdExecute(xorig, x, weight, bias, running_mean, running_var, use_input_stats,
                    channels_last, stat_axes, d.fd,
                    fd_execute(d.fd, FwdInputs(x, weight, bias, running_mean, running_var,
                                               momentum, eps)))

\* forward on x, which is xorig with the channel axis moved last when channels_last
FwdPermuted(xorig, x, weight, bias, running_mean, running_var, use_input_stats, momentum, eps, unbiased, stat_axes, channels_last) ==
    FwdDefined(xorig, x, weight, bias, running_mean, running_var, use_input_stats, momentum,
               eps, stat_axes, channels_last,
               FwdDefinition(x, weight, bias, running_mean, running_var, use_input_stats,
                             channels_last, unbiased, stat_axes))

NormNVFuserFunction_forward(x, weight, bias, running_mean, running_var, use_input_stats, momentum, eps, unbiased, stat_axes) ==
    FwdPermuted(x,
                IF is_channels_last(x) \/ is_channels_last_3d(x)
                THEN permute(x, ToChannelsLastOrder(Len(x.shape))) ELSE x,
                weight, bias, running_mean, running_var, use_input_stats, momentum, eps,
                unbiased, stat_axes,
                is_channels_last(x) \/ is_channels_last_3d(x))

----------------------------------------------------------------------------
(* norm_fusion_backward                                                    *)

\* Axis Role Resolver of the backward graph
BwdAxes(num_dims, channels_last, stat_axes) ==
    LET batch_dim == 0
        channel_dim == IF channels_last THEN num_dims - 1 ELSE 1
        stat_dims == (IF "BATCH" \in stat_axes THEN <<batch_dim>> ELSE <<>>)
                     \o (IF "CHANNEL" \in stat_axes THEN <<channel_dim>> ELSE <<>>)
        stat_dims_nobatch == IF "CHANNEL" \in stat_axes THEN <<channel_dim>> ELSE <<>>
    IN  [batch_dim |-> batch_dim,
         channel_dim |-> channel_dim,
         stat_dims |-> stat_dims,
         stat_dims_nobatch |-> stat_dims_nobatch,
         x_reduction_axes |->
             SelectSeq(RangeSeq(num_dims), LAMBDA ax : ax \notin Range(stat_dims))]

BwdSizes(x, ax, stat_axes) ==
    fd_ops_tensor_sizes(x.name)
    \o fd_define_constant("num_stats", VOne, "Int")
    \o (IF "BATCH" \in stat_axes
        THEN fd_ops_mul("num_stats", "num_stats", At(dyn_shape, ax.batch_dim)) ELSE <<>>)
    \o (IF "CHANNEL" \in stat_axes
        THEN fd_ops_mul("num_stats", "num_stats", At(dyn_shape, ax.channel_dim)) ELSE <<>>)
    \o fd_define_constant("num_features", VOne, "Int")
    \o MulExtents("num_features", ax.x_reduction_axes)

\* the sums over the reduced axes and the terms broadcast back to the input shape
BwdTerms(x, grad_output, mean, invstd, ax) ==
    fd_ops_broadcast_in_dim(mean.name, mean.name, x.name, <<ax.batch_dim, ax.channel_dim>>)
    \o fd_ops_reciprocal("norm", "num_features")
    \o fd_ops_sum("grad_output_sum", grad_output.name, ax.x_reduction_axes)
    \o fd_ops_sub("x - mean", x.name, mean.name)
    \o fd_ops_mul("grad_output * (x - mean)", grad_output.name, "x - mean")
    \o fd_ops_sum("dot_p", "grad_output * (x - mean)", ax.x_reduction_axes)
    \o fd_ops_mul("grad_output_sum * norm", "grad_output_sum", "norm")
    \o fd_ops_broadcast_in_dim("grad_mean", "grad_output_sum * norm", x.name,
                               <<ax.batch_dim, ax.channel_dim>>)
    \o fd_ops_mul("dot_p * norm", "dot_p", "norm")
    \o fd_ops_mul("invstd * invstd", invstd.name, invstd.name)
    \o fd_ops_mul("dot_p * norm * invstd * invstd", "dot_p * norm", "invstd * invstd")
    \o fd_ops_broadcast_in_dim("proj_scale", "dot_p * norm * invstd * invstd", x.name,
                               <<ax.batch_dim, ax.channel_dim>>)
    \o fd_ops_broadcast_in_dim("invstd_bcast", invstd.name, x.name,
                               <<ax.batch_dim, ax.channel_dim>>)

BwdGradScale(x, weight) ==
    IF weight = None THEN assign("grad_scale", "invstd_bcast")
    ELSE fd_ops_broadcast_in_dim("weight_bcast", weight.name, x.name, <<0>>)
         \o fd_ops_mul("grad_scale", "invstd_bcast", "weight_bcast")

\* whether backward subtracts the projection and mean terms
BwdUsesInputStats(use_input_stats, running_mean) == use_input_stats

BwdGradInput(x, grad_output, mean, use_input_stats, running_mean) ==
    IF BwdUsesInputStats(use_input_stats, running_mean)
    THEN fd_ops_sub("x - mean", x.name, mean.name)
         \o fd_ops_mul("proj", "x - mean", "proj_scale")
         \o fd_ops_sub("grad_output - proj", grad_output.name, "proj")
         \o fd_ops_sub("grad_output - proj - grad_mean", "grad_output - proj", "grad_mean")
         \o fd_ops_mul("grad_input", "grad_output - proj - grad_mean", "grad_scale")
    ELSE fd_ops_mul("grad_input", grad_output.name, "grad_scale")

\* the axes over which the weight and bias gradients are summed once more
GradParamReduceAxes(stat_axes) == <<0>>

BwdGradParams(invstd, weight, bias, stat_axes) ==
    (IF weight # None
     THEN fd_ops_mul("grad_weight", "dot_p", invstd.name)
          \o fd_ops_sum("grad_weight_reduced", "grad_weight", GradParamReduceAxes(stat_axes))
     ELSE <<>>)
    \o (IF bias # None
        THEN assign("grad_bias", "grad_output_sum")
             \o fd_ops_sum("grad_bias_reduced", "grad_bias", GradParamReduceAxes(stat_axes))
        ELSE <<>>)

\* returns the operations added and the names of the three gradients (None when absent)
norm_fusion_backward(x, grad_output, mean, invstd, weight, bias, running_mean, running_var, use_input_stats, channels_last, x_datatype, stat_axes) ==
    IF (running_var = None) # (running_mean = None)
    THEN [err |-> "AssertionError"]
    ELSE [err |-> "",
          ops |->
              BwdSizes(x, BwdAxes(x.ndim, channels_last, stat_axes), stat_axes)
              \o BwdTerms(x, grad_output, mean, invstd,
                          BwdAxes(x.ndim, channels_last, stat_axes))
              \o BwdGradScale(x, weight)
              \o BwdGradInput(x, grad_output, mean, use_input_stats, running_mean)
              \o BwdGradParams(invstd, weight, bias, stat_axes),
          grad_input |-> "grad_input",
          grad_weight |-> IF weight # None THEN "grad_weight_reduced" ELSE None,
          grad_bias |-> IF bias # None THEN "grad_bias_reduced" ELSE None]

----------------------------------------------------------------------------
(* NormNVFuserFunction.backward                                            *)

\* graph inputs; backward inserts no cast on them
BwdDefineInputs(x, weight, bias, running_mean, running_var, mean, invstd, grad_output) ==
    partially_contig_tensor("x", x)
    \o DefineOptional("weight", weight)
    \o DefineOptional("bias", bias)
    \o DefineOptional("running_mean", running_mean)
    \o DefineOptional("running_var", running_var)
    \o partially_contig_tensor("mean", mean)
    \o partially_contig_tensor("invstd", invstd)
    \o partially_contig_tensor("grad_output", grad_output)

BwdInputs(x, weight, bias, running_mean, running_var, mean, invstd, grad_output) ==
    <<x>>
    \o (IF weight # None THEN <<weight>> ELSE <<>>)
    \o (IF bias # None THEN <<bias>> ELSE <<>>)
    \o (IF running_mean # None THEN <<running_mean>> ELSE <<>>)
    \o (IF running_var # None THEN <<running_var>> ELSE <<>>)
    \o <<mean, invstd, grad_output>>

\* casts back to a reduced input type, and the outputs that are registered
BwdOutputs(g, weight, bias, x_datatype) ==
    (IF IsReduced(x_datatype) THEN fd_ops_cast("grad_input", g.grad_input, x_datatype)
     ELSE <<>>)
    \o fd_add_output("grad_input", "")
    \o (IF weight # None
        THEN (IF IsReduced(x_datatype)
              THEN fd_ops_cast("grad_weight", g.grad_weight, x_datatype)
              ELSE assign("grad_weight", g.grad_weight))
             \o fd_add_output("grad_weight", "")
        ELSE <<>>)
    \o (IF bias # None
        THEN (IF IsReduced(x_datatype)
              THEN fd_ops_cast("grad_bias", g.grad_bias, x_datatype)
              ELSE assign("grad_bias", g.grad_bias) \o fd_add_output("grad_bias", ""))
        ELSE <<>>)

\* marks a gradient that is not read from res but set to None
NotRead == -1

\* the positions of res read after fd.execute: res[0], then res[c] for weight and bias
BwdResultsRead(weight, bias) ==
    [grad_input |-> 0,
     grad_weight |-> IF weight # None THEN 1 ELSE NotRead,
     grad_bias |-> IF bias = None THEN NotRead ELSE IF weight # None THEN 2 ELSE 1]

\* the graph around the operations g that norm_fusion_backward added
BwdAssemble(c, grad_output, g) ==
    IF g.err # "" THEN [err |-> g.err]
    ELSE [err |-> "",
          fd |-> BwdDefineInputs(c.x, c.weight, c.bias, c.running_mean, c.running_var,
                                 c.mean, c.invstd, grad_output)
                 \o g.ops
                 \o BwdOutputs(g, c.weight, c.bias, torch2datatype(c.x.dtype))]

\* the `with FusionDefinition() as fd:` block
BwdDefinition(c, grad_output) ==
    BwdAssemble(c, grad_output,
                norm_fusion_backward(
                    Tensor("x", c.x), Tensor("grad_output", grad_output),
                    Tensor("mean", c.mean), Tensor("invstd", c.invstd),
                    Tensor("weight", c.weight), Tensor("bias", c.bias),
                    Tensor("running_mean", c.running_mean),
                    Tensor("running_var", c.running_var),
                    c.use_input_stats, c.channels_last, torch2datatype(c.x.dtype),
                    c.stat_axes))

BwdLayoutOK(grad_input) ==
    CASE Len(grad_input.shape) = 4 -> is_channels_last(grad_input)
      [] Len(grad_input.shape) = 5 -> is_channels_last_3d(grad_input)
      [] OTHER -> FALSE

\* the graph values kept with the result of a backward call
BwdKept == {"x - mean", "proj_scale", "grad_mean", "grad_scale", "grad_output", "grad_input"}

\* res[i], as a torch tensor
ResultAt(ret, i) == IF i = NotRead THEN None ELSE Executed(ret[i + 1].val)

\* the return of backward: a channels-last gradient is permuted back and checked
BwdReturn(grad_input, channels_last) ==
    IF ~channels_last THEN [err |-> "", grad_input |-> grad_input]
    ELSE [err |-> IF BwdLayoutOK(permute(grad_input,
                                         FromChannelsLastOrder(Len(grad_input.shape))))
                  THEN "" ELSE "AssertionError",
          grad_input |-> permute(grad_input, FromChannelsLastOrder(Len(grad_input.shape)))]

\* from fd.execute to the return
BwdExecute(c, grad_output, fd, e, read) ==
    IF ~e.ok \/ e.next # Len(BwdInputs(c.x, c.weight, c.bias, c.running_mean, c.running_var,
                                       c.mean, c.invstd, grad_output)) + 1
    THEN [err |-> "EngineError", stage |-> "execute", fd |-> fd]
    ELSE IF \E f \in DOMAIN read : read[f] >= Len(Returned(e.outputs))
    THEN [err |-> "IndexError", stage |-> "read", fd |-> fd, reduced |-> e.reduced,
          results |-> Len(Returned(e.outputs))]
    ELSE LET ret == Returned(e.outputs)
             grad_input == ResultAt(ret, read.grad_input)
         IN  [err |-> BwdReturn(grad_input, c.channels_last).err,
              stage |-> "return",
              fd |-> fd,
              kept |-> Keep(e.env, BwdKept),
              reduced |-> e.reduced,
              results |-> Len(ret),
              grad_input |-> BwdReturn(grad_input, c.channels_last).grad_input,
              grad_weight |-> ResultAt(ret, read.grad_weight),
              grad_bias |-> ResultAt(ret, read.grad_bias)]

\* the definition d, executed unless defining it raised
BwdDefined(c, grad_output, d) ==
    IF d.err # "" THEN [err |-> d.err, stage |-> "define"]
    ELSE BwdExecute(c, grad_output, d.fd,
                    fd_execute(d.fd, BwdInputs(c.x, c.weight, c.bias, c.running_mean,
                                               c.running_var, c.mean, c.invstd,
                                               grad_output)),
                    BwdResultsRead(c.weight, c.bias))

\* backward on grad_output with the channel axis moved last when ctx.channels_last
BwdPermuted(c, grad_output) == BwdDefined(c, grad_output, BwdDefinition(c, grad_output))

NormNVFuserFunction_backward(c, grad_output) ==
    BwdPermuted(c, IF c.channels_last
                   THEN permute(grad_output, ToChannelsLastOrder(Len(grad_output.shape)))
                   ELSE grad_output)

----------------------------------------------------------------------------
(* _NormNVFuserBase.forward and the InstanceNorm{1,2,3}dNVFuser checks     *)

\* a rank check that accepts rank 4 in every variant
ExpectedDimAny(variant) == 4

\* the rank _check_input_dim accepts
ExpectedDim(variant) ==
    CASE variant = "InstanceNorm1dNVFuser" -> 3
      [] variant = "InstanceNorm2dNVFuser" -> 4
      [] variant = "InstanceNorm3dNVFuser" -> 5

\* "" when the input passes, else the exception raised before the function is applied
CheckInput(variant, input) ==
    IF ~input.is_cuda THEN "AssertionError"
    ELSE IF Len(input.shape) # ExpectedDim(variant) THEN "ValueError"
    ELSE ""

\* use_input_stats as the module passes it
ModuleUsesInputStats(training, track_running_stats) == training \/ ~track_running_stats

----------------------------------------------------------------------------
(* State: one normalisation layer and the calls made on it.                *)

VARIABLES
    layer,          \* construction arguments: role set, affine parameters, scalars
    running_mean,   \* caller-owned running statistics (None when not supplied)
    running_var,
    ctx,            \* what the last forward saved for backward
    res,            \* the last call and what it returned or raised
    hist,           \* the arguments of the forward calls made so far
    args,           \* arguments handed to the Axis Role Resolver
    axes,           \* what the forward and the backward resolver derived from args
    sampler         \* a MegatronPretrainingRandomSampler and its iterator

vars == <<layer, running_mean, running_var, ctx, res, hist, args, axes, sampler>>

MaxCalls == 2
MaxRank == 6
BatchSizes == {1, 2}
Channels == {2}
Lengths == {1, 2}
RoleSets == {{"BATCH"}, {"CHANNEL"}, {"BATCH", "CHANNEL"}}
Momenta == {Rat(1, 2)}
Epsilons == {Rat(1, 4)}
Variants == {"InstanceNorm1dNVFuser", "InstanceNorm2dNVFuser", "InstanceNorm3dNVFuser"}

\* element values of the inputs: distinct means and variances per (batch, channel) slice
XValue(idx) == Int2V((1 + idx[1]) * (idx[Len(idx)] + 1) + idx[2])

XTensor(shape, order, dt) ==
    TorchTensor(shape, order, [idx \in Indices(shape) |-> XValue(idx)], dt)

\* rank-3 inputs (N, C, L), and a rank-4 input (N, C, 1, L) in channels-last memory order
XInputs(C, dt) ==
    {XTensor(<<n, C, l>>, ContiguousOrder(3), dt) : n \in BatchSizes, l \in Lengths}
    \cup {XTensor(<<2, C, 1, 2>>, ChannelsLastOrder(4), dt)}

\* inputs of every rank 2..MaxRank for the modules: (N, C), (N, C, L), (N, C, 1, L), ...
RankShape(rank, C) == [i \in 1..rank |-> IF i = 2 THEN C ELSE IF i \in {1, rank} THEN 2 ELSE 1]

OnDevice(t, cuda) ==
    [shape |-> t.shape, stride |-> t.stride, v |-> t.v, dtype |-> t.dtype, is_cuda |-> cuda]

ModuleInputs(C, dt) ==
    {OnDevice(XTensor(RankShape(r, C), ContiguousOrder(r), dt), cuda) :
        r \in 2..MaxRank, cuda \in BOOLEAN}

\* affine parameters: one entry per channel when CHANNEL is a statistics axis, else 0-d
ParamShape(stat_axes, C) == IF "CHANNEL" \in stat_axes THEN <<C>> ELSE <<>>

Param(stat_axes, C, dt, base) ==
    LET sh == ParamShape(stat_axes, C)
    IN  TorchTensor(sh, ContiguousOrder(Len(sh)),
                    [idx \in Indices(sh) |-> Int2V(base + (IF idx = <<>> THEN 0 ELSE idx[1]))],
                    dt)

Filled(stat_axes, C, dt, val) ==
    LET sh == ParamShape(stat_axes, C)
    IN  TorchTensor(sh, ContiguousOrder(Len(sh)), [idx \in Indices(sh) |-> val], dt)

Layers ==
    [variant : {"function"}, stat_axes : RoleSets, num_features : Channels,
     dtype : {"Float", "Half"}, has_weight : BOOLEAN, has_bias : BOOLEAN,
     unbiased : BOOLEAN, momentum : Momenta, eps : Epsilons]

LayerWeight(l) ==
    IF l.has_weight THEN Param(l.stat_axes, l.num_features, l.dtype, 2) ELSE None
LayerBias(l) ==
    IF l.has_bias THEN Param(l.stat_axes, l.num_features, l.dtype, 1) ELSE None

\* running statistics as reset_running_stats leaves them: mean 0, variance 1
InitRunning(has_mean, has_var) ==
    /\ running_mean = IF has_mean
                      THEN Filled(layer.stat_axes, layer.num_features, layer.dtype, VZero)
                      ELSE None
    /\ running_var = IF has_var
                     THEN Filled(layer.stat_axes, layer.num_features, layer.dtype, VOne)
                     ELSE None

InitCalls ==
    /\ sampler = None
    /\ ctx = None
    /\ res = [call |-> "none", err |-> ""]
    /\ hist = <<>>

\* a layer used through NormNVFuserFunction.apply, with any of the argument combinations
Init ==
    /\ layer \in Layers
    /\ layer.unbiased = FALSE
    /\ \E has_mean \in BOOLEAN, has_var \in BOOLEAN :
        /\ has_mean # has_var => ~layer.has_bias /\ layer.dtype = "Float"
        /\ InitRunning(has_mean, has_var)
    /\ InitCalls
    /\ args = None
    /\ axes = None

\* the statistics path alone: no affine parameters, native precision, both variance flags
InitStats ==
    /\ layer \in Layers
    /\ ~layer.has_weight /\ ~layer.has_bias /\ layer.dtype = "Float"
    /\ \E has \in BOOLEAN : InitRunning(has, has)
    /\ InitCalls
    /\ args = None
    /\ axes = None

\* an InstanceNorm{1,2,3}dNVFuser module: affine and track_running_stats as constructed
InitModule ==
    /\ layer \in [variant : Variants, stat_axes : {{"BATCH", "CHANNEL"}},
                  num_features : Channels, dtype : {"Float"},
                  has_weight : BOOLEAN, has_bias : BOOLEAN, unbiased : {FALSE},
                  momentum : Momenta, eps : Epsilons, track_running_stats : BOOLEAN]
    /\ layer.has_weight = layer.has_bias
    /\ InitRunning(layer.track_running_stats, layer.track_running_stats)
    /\ InitCalls
    /\ args = None
    /\ axes = None

\* arguments of the Axis Role Resolver: every rank, layout flag and role set
InitAxes ==
    /\ layer = None /\ running_mean = None /\ running_var = None
    /\ InitCalls
    /\ args \in [num_dims : 2..MaxRank, channels_last : BOOLEAN, stat_axes : RoleSets]
    /\ axes = [fwd |-> None, bwd |-> None]

\* the effect of NormNVFuserFunction.apply(x, weight, bias, running_mean, running_var, ...)
Apply(call, x, use_input_stats) ==
    \E r \in {NormNVFuserFunction_forward(x, LayerWeight(layer), LayerBias(layer),
                                          running_mean, running_var, use_input_stats,
                                          Num(layer.momentum), Num(layer.eps),
                                          layer.unbiased, layer.stat_axes)} :
        /\ hist' = Append(hist, [x |-> x, use_input_stats |-> use_input_stats])
        /\ IF r.stage = "define"
           THEN /\ res' = [call |-> call, err |-> r.err]
                /\ UNCHANGED <<running_mean, running_var, ctx>>
           ELSE IF r.stage = "execute"
           THEN /\ res' = [call |-> call, err |-> r.err, fd |-> r.fd]
                /\ UNCHANGED <<running_mean, running_var, ctx>>
           ELSE /\ res' = [call |-> call, err |-> r.err, fd |-> r.fd, kept |-> r.kept,
                           reduced |-> r.reduced, outputs |-> r.outputs,
                           out |-> IF r.err = "" THEN r.out ELSE None]
                /\ running_mean' = r.running_mean
                /\ running_var' = r.running_var
                /\ ctx' = r.ctx
        /\ UNCHANGED <<sampler, layer, args, axes>>

\* NormNVFuserFunction.forward, called directly
Forward(x, use_input_stats) ==
    /\ Len(hist) < MaxCalls
    /\ res.err = ""
    /\ Apply("forward", x, use_input_stats)

\* the gradient autograd hands to backward: shaped and laid out like the forward output
GradValue(idx) == Int2V(1 + idx[1] + 2 * idx[Len(idx)])

GradOutputs(out) ==
    {[out EXCEPT !.v = Elements([idx \in Indices(out.shape) |-> GradValue(idx)])]}

\* NormNVFuserFunction.backward(ctx, grad_output), once after a forward that returned
Backward ==
    /\ res.call \in {"forward", "module_forward"}
    /\ res.err = ""
    /\ \E grad_output \in GradOutputs(res.out) :
       \E r \in {NormNVFuserFunction_backward(ctx, grad_output)} :
        /\ res' = IF r.stage = "define" THEN [call |-> "backward", err |-> r.err]
                  ELSE IF r.stage = "execute"
                  THEN [call |-> "backward", err |-> r.err, fd |-> r.fd]
                  ELSE IF r.stage = "read"
                  THEN [call |-> "backward", err |-> r.err, fd |-> r.fd,
                        reduced |-> r.reduced, results |-> r.results]
                  ELSE [call |-> "backward", err |-> r.err, fd |-> r.fd, kept |-> r.kept,
                        reduced |-> r.reduced, results |-> r.results,
                        grad_input |-> r.grad_input, grad_weight |-> r.grad_weight,
                        grad_bias |-> r.grad_bias]
        /\ UNCHANGED <<sampler, layer, running_mean, running_var, ctx, hist, args, axes>>

\* _NormNVFuserBase.forward(input) of a module in training or evaluation mode
ModuleForward(input, training) ==
        /\ Len(hist) < MaxCalls
        /\ res.err = ""
        /\ IF CheckInput(layer.variant, input) # ""
           THEN /\ res' = [call |-> "module_forward",
                           err |-> CheckInput(layer.variant, input),
                           rank |-> Len(input.shape),
                           is_cuda |-> input.is_cuda]
                /\ UNCHANGED <<sampler, layer, running_mean, running_var, ctx, hist, args, axes>>
           ELSE Apply("module_forward",
                      [shape |-> input.shape, stride |-> input.stride, v |-> input.v,
                       dtype |-> input.dtype],
                      ModuleUsesInputStats(training, layer.track_running_stats))

\* the resolver prologue of norm_fusion_forward and of norm_fusion_backward
ResolveForward ==
    /\ axes.fwd = None
    /\ axes' = [axes EXCEPT !.fwd = FwdAxes(args.num_dims, args.channels_last, args.stat_axes)]
    /\ UNCHANGED <<sampler, layer, running_mean, running_var, ctx, res, hist, args>>

ResolveBackward ==
    /\ axes.bwd = None
    /\ axes' = [axes EXCEPT !.bwd = BwdAxes(args.num_dims, args.channels_last, args.stat_axes)]
    /\ UNCHANGED <<sampler, layer, running_mean, running_var, ctx, res, hist, args>>

Next ==
    \/ \E x \in XInputs(layer.num_features, layer.dtype), u \in BOOLEAN : Forward(x, u)
    \/ Backward

NextStats ==
    \E x \in XInputs(layer.num_features, layer.dtype), u \in BOOLEAN : Forward(x, u)

NextModule ==
    \/ \E x \in ModuleInputs(layer.num_features, layer.dtype), t \in BOOLEAN :
          ModuleForward(x, t)
    \/ Backward

NextAxes == ResolveForward \/ ResolveBackward

Spec == Init /\ [][Next]_vars
SpecStats == InitStats /\ [][NextStats]_vars
SpecModule == InitModule /\ [][NextModule]_vars
SpecAxes == InitAxes /\ [][NextAxes]_vars


----------------------------------------------------------------------------
(* Channels-last inputs: NormNVFuserFunction.forward and backward on       *)
(* rank-4 and rank-5 tensors in either memory order.                       *)

\* (N, C, 1, L) and (N, C, 1, 1, L) inputs, each packed channel-second and channels-last
LayoutInputs(C, dt) ==
    {XTensor(sh, ord, dt) :
        sh \in {<<2, C, 1, 2>>}, ord \in {ContiguousOrder(4), ChannelsLastOrder(4)}}
    \cup {XTensor(sh, ord, dt) :
        sh \in {<<2, C, 1, 1, 2>>}, ord \in {ContiguousOrder(5), ChannelsLastOrder(5)}}

\* a layer without running statistics, with both affine parameters or none
InitLayout ==
    /\ layer \in Layers
    /\ layer.has_weight = layer.has_bias /\ layer.dtype = "Float" /\ ~layer.unbiased
    /\ InitRunning(FALSE, FALSE)
    /\ InitCalls
    /\ args = None
    /\ axes = None

NextLayout ==
    \/ \E x \in LayoutInputs(layer.num_features, layer.dtype), u \in BOOLEAN : Forward(x, u)
    \/ Backward

SpecLayout == InitLayout /\ [][NextLayout]_vars

----------------------------------------------------------------------------
(* The return of forward and of backward on a result of any rank, with     *)
(* channels-last handling on or off.                                       *)

\* the tensor t repacked in row-major order, as fd.execute returns its outputs
Packed(t) == TorchTensor(t.shape, ContiguousOrder(Len(t.shape)), t.v, t.dtype)

\* the memory order named ord, innermost axis first
ReturnOrder(rank, ord) ==
    IF ord = "contiguous" THEN ContiguousOrder(rank) ELSE ChannelsLastOrder(rank)

\* the result the graph computed for args.x: permuted on entry when channels_last
ReturnResult ==
    Packed(IF args.channels_last
           THEN permute(args.x, ToChannelsLastOrder(Len(args.x.shape)))
           ELSE args.x)

InitReturn ==
    /\ layer = None /\ running_mean = None /\ running_var = None
    /\ InitCalls
    /\ \E n \in BatchSizes, l \in Lengths, rank \in 2..MaxRank,
          ord \in {"contiguous", "channels_last"}, channels_last \in BOOLEAN :
          args = [x |-> XTensor([i \in 1..rank |->
                                    IF i = 1 THEN n ELSE IF i = 2 THEN 2
                                    ELSE IF i = rank THEN l ELSE 1],
                                ReturnOrder(rank, ord), "Float"),
                  channels_last |-> channels_last]
    /\ axes = None

\* lines 471-482 of forward on the result
ReturnForward ==
    /\ res.call # "forward"
    /\ \E r \in {FwdReturn(ReturnResult, args.x, args.channels_last)} :
          res' = [call |-> "forward", err |-> r.err,
                  out |-> IF r.err = "" THEN r.out ELSE None]
    /\ UNCHANGED <<sampler, layer, running_mean, running_var, ctx, hist, args, axes>>

\* lines 590-600 of backward on the gradient
ReturnBackward ==
    /\ res.call # "backward"
    /\ \E r \in {BwdReturn(ReturnResult, args.channels_last)} :
          res' = [call |-> "backward", err |-> r.err,
                  out |-> IF r.err = "" THEN r.grad_input ELSE None]
    /\ UNCHANGED <<sampler, layer, running_mean, running_var, ctx, hist, args, axes>>

NextReturn == ReturnForward \/ ReturnBackward

SpecReturn == InitReturn /\ [][NextReturn]_vars

----------------------------------------------------------------------------
(* Inference with running statistics: forward calls in either mode on a    *)
(* layer that is given both running statistics, with any affine parameters. *)

InitInference ==
    /\ layer \in Layers
    /\ layer.dtype = "Float" /\ ~layer.unbiased
    /\ InitRunning(TRUE, TRUE)
    /\ InitCalls
    /\ args = None
    /\ axes = None

NextInference ==
    \E x \in XInputs(layer.num_features, layer.dtype), u \in BOOLEAN : Forward(x, u)

SpecInference == InitInference /\ [][NextInference]_vars

----------------------------------------------------------------------------
(* The inputs of the graphs: forward and backward for every combination of *)
(* weight, bias, running mean and running variance given or not.           *)

InitInputs ==
    /\ layer \in Layers
    /\ ~layer.unbiased
    /\ \E has_mean \in BOOLEAN, has_var \in BOOLEAN : InitRunning(has_mean, has_var)
    /\ InitCalls
    /\ args = None
    /\ axes = None

NextInputs ==
    \/ \E u \in BOOLEAN :
          Forward(XTensor(<<2, layer.num_features, 2>>, ContiguousOrder(3), layer.dtype), u)
    \/ Backward

SpecInputs == InitInputs /\ [][NextInputs]_vars

----------------------------------------------------------------------------
(* MegatronPretrainingRandomSampler: construction, and the batches its     *)
(* iterator yields, one call of next() at a time.                          *)

MaxSamples == 4
DataParallelSizes == {1, 2}

\* the lists torch.randperm(n) can return: the orderings of 0..n-1
torch_randperm(n) ==
    {p \in [1..n -> 0..(n - 1)] : \A i, j \in 1..n : p[i] = p[j] => i = j}

\* __init__: the fields of the sampler, and an iterator not yet started
MegatronPretrainingRandomSampler(total_samples, consumed_samples, micro_batch_size, data_parallel_rank, data_parallel_size) ==
    [total_samples |-> total_samples,
     consumed_samples |-> consumed_samples,
     micro_batch_size |-> micro_batch_size,
     data_parallel_rank |-> data_parallel_rank,
     data_parallel_size |-> data_parallel_size,
     micro_batch_times_data_parallel_size |-> micro_batch_size * data_parallel_size,
     last_batch_size |-> total_samples % (micro_batch_size * data_parallel_size),
     gen |-> "created", err |-> "", yielded |-> <<>>]

\* the sanity checks of __init__
SanityChecks(a) ==
    /\ a.total_samples > 0
    /\ a.micro_batch_size > 0
    /\ a.data_parallel_size > 0
    /\ a.data_parallel_rank < a.data_parallel_size

active_total_samples(s) == s.total_samples - s.last_batch_size

epoch(s) == s.consumed_samples \div active_total_samples(s)

current_epoch_samples(s) == s.consumed_samples % active_total_samples(s)

bucket_size(s) ==
    (s.total_samples \div s.micro_batch_times_data_parallel_size) * s.micro_batch_size

bucket_offset(s) == current_epoch_samples(s) \div s.data_parallel_size

start_idx(s) == s.data_parallel_rank * bucket_size(s)

\* [start_idx + x for x in random_idx[bucket_offset:]]
idx_range(s, random_idx) ==
    [i \in 1..(Len(random_idx) - bucket_offset(s)) |->
        start_idx(s) + random_idx[i + bucket_offset(s)]]

\* what the statements of __iter__ before the loop raise: the division by
\* active_total_samples, then the assertion on current_epoch_samples
IterError(s) ==
    IF active_total_samples(s) = 0 THEN "ZeroDivisionError"
    ELSE IF current_epoch_samples(s) % s.micro_batch_times_data_parallel_size # 0
    THEN "AssertionError"
    ELSE ""

\* a loop that puts each index in front of the batch
RECURSIVE CollectNewestFirst(_, _, _)
CollectNewestFirst(batch, rest, micro_batch_size) ==
    IF rest = <<>> THEN [yield |-> FALSE, batch |-> batch, rest |-> rest]
    ELSE IF Len(<<Head(rest)>> \o batch) = micro_batch_size
    THEN [yield |-> TRUE, batch |-> <<Head(rest)>> \o batch, rest |-> Tail(rest)]
    ELSE CollectNewestFirst(<<Head(rest)>> \o batch, Tail(rest), micro_batch_size)

\* the loop from an empty batch: up to the next yield, or to the end of idx_range
RECURSIVE Collect(_, _, _)
Collect(batch, rest, micro_batch_size) ==
    IF rest = <<>> THEN [yield |-> FALSE, batch |-> batch, rest |-> rest]
    ELSE IF Len(Append(batch, Head(rest))) = micro_batch_size
    THEN [yield |-> TRUE, batch |-> Append(batch, Head(rest)), rest |-> Tail(rest)]
    ELSE Collect(Append(batch, Head(rest)), Tail(rest), micro_batch_size)

\* self.consumed_samples += self.micro_batch_times_data_parallel_size
ConsumedAfterYield(s) == s.consumed_samples + s.micro_batch_times_data_parallel_size

\* the iterator after it ran to c: suspended at the yield of c.batch, or finished
Resumed(s, c) ==
    IF c.yield
    THEN [s EXCEPT !.consumed_samples = ConsumedAfterYield(s),
                   !.gen = "suspended",
                   !.idx_range = c.rest,
                   !.yielded = Append(@, c.batch)]
    ELSE [s EXCEPT !.gen = "finished", !.idx_range = c.rest]

\* the iterator at the top of the loop: epoch set, the permutation drawn and offset
Started(s, random_idx) ==
    [epoch |-> epoch(s), random_idx |-> random_idx, idx_range |-> idx_range(s, random_idx)]
    @@ s

InitSampler ==
    /\ args \in [total_samples : 1..MaxSamples, consumed_samples : 0..MaxSamples,
                 micro_batch_size : 1..MaxSamples, data_parallel_rank : 0..1,
                 data_parallel_size : DataParallelSizes]
    /\ SanityChecks(args)
    /\ sampler = MegatronPretrainingRandomSampler(
                     args.total_samples, args.consumed_samples, args.micro_batch_size,
                     args.data_parallel_rank, args.data_parallel_size)
    /\ layer = None /\ running_mean = None /\ running_var = None
    /\ ctx = None
    /\ res = [call |-> "none", err |-> ""]
    /\ hist = <<>>
    /\ axes = None

\* the first next() on iter(sampler): __iter__ from its start to the first yield
StartIter ==
    /\ sampler.gen = "created"
    /\ IF IterError(sampler) # ""
       THEN sampler' = [sampler EXCEPT !.gen = "raised", !.err = IterError(sampler)]
       ELSE \E random_idx \in torch_randperm(bucket_size(sampler)) :
            \E s \in {Started(sampler, random_idx)} :
               sampler' = Resumed(s, Collect(<<>>, s.idx_range, s.micro_batch_size))
    /\ UNCHANGED <<layer, running_mean, running_var, ctx, res, hist, args, axes>>

\* a later next(): the loop from the statement after the yield
ResumeIter ==
    /\ sampler.gen = "suspended"
    /\ sampler' = Resumed(sampler,
                          Collect(<<>>, sampler.idx_range, sampler.micro_batch_size))
    /\ UNCHANGED <<layer, running_mean, running_var, ctx, res, hist, args, axes>>

NextSampler == StartIter \/ ResumeIter

SpecSampler == InitSampler /\ [][NextSampler]_vars
----------------------------------------------------------------------------
(* Properties                                                              *)

\* a torch tensor as a tensor of values
AsValues(t) == [shape |-> t.shape, v |-> t.v, dtype |-> t.dtype, scalar |-> FALSE]

Times(q, t) == Binary("mul", t, Scalar(Num(q), "Double"))

OneMinus(q) == RAdd(ROne, <<-q[1], q[2]>>)

\* the mean of x per channel, over the batch axis and every other axis
BatchMean(x) == Mean(AsValues(x), KeptAxes(Len(x.shape), <<1>>))

\* the running mean the momentum rule gives after the first k forward calls, from zero
RECURSIVE MomentumMean(_)
MomentumMean(k) ==
    IF k = 0 THEN AsValues(Filled({"CHANNEL"}, layer.num_features, layer.dtype, VZero))
    ELSE Binary("add", Times(layer.momentum, BatchMean(hist[k].x)),
                      Times(OneMinus(layer.momentum), MomentumMean(k - 1)))

\* C1: for role {CHANNEL}, unbiased=False, running statistics supplied and every call
\* in training mode, the running mean after k forward calls from a zero running mean is
\* m*batchMean_1 for k = 1 and m*batchMean_2 + (1-m)*m*batchMean_1 for k = 2, with no
\* further scaling, for every batch size.
C1_RunningMeanMomentumRule ==
    (/\ layer.stat_axes = {"CHANNEL"}
     /\ ~layer.unbiased
     /\ running_mean # None /\ running_var # None
     /\ \A i \in DOMAIN hist : hist[i].use_input_stats)
    => running_mean.v = MomentumMean(Len(hist)).v

\* the arguments of the latest forward call
LastCall == hist[Len(hist)]

\* C2: running mean and running variance change only in a forward call that is given
\* running statistics and computes statistics from the input; a forward call in inference
\* mode (use_input_stats false, running statistics given) registers no output aliased to
\* an input and leaves both running statistics unchanged.
C2_RunningStatsFrame ==
    [][/\ (running_mean' # running_mean \/ running_var' # running_var)
            => /\ running_mean # None /\ running_var # None
               /\ Len(hist') = Len(hist) + 1
               /\ hist'[Len(hist')].use_input_stats
       /\ (/\ Len(hist') = Len(hist) + 1
           /\ ~hist'[Len(hist')].use_input_stats
           /\ running_mean # None /\ running_var # None)
            => /\ res'.call = "forward" /\ res'.err = ""
               /\ \A i \in DOMAIN res'.fd : res'.fd[i].alias = ""
               /\ \A i \in DOMAIN res'.outputs : res'.outputs[i].alias = ""
               /\ running_mean' = running_mean /\ running_var' = running_var]_vars

\* a training call changed the running statistics and an inference call then left them
C2_Witness ==
    /\ Len(hist) = 2
    /\ hist[1].use_input_stats /\ ~hist[2].use_input_stats
    /\ res.call = "forward" /\ res.err = ""
    /\ running_mean # None
    /\ running_mean # Filled(layer.stat_axes, layer.num_features, layer.dtype, VZero)

\* C3: forward and backward each raise at the call whenever exactly one of running mean
\* and running variance is given, and raise no configuration error when both or neither
\* are given.
C3_RunningStatsBothOrNeither ==
    res.call \in {"forward", "backward"}
    => ((res.err = "AssertionError" /\ "fd" \notin DOMAIN res)
        <=> ((running_mean = None) # (running_var = None)))

\* gradInput = (gradOutput - (x-mean)*projScale - gradMean)*gradScale
GradInputFresh(k) ==
    Binary("mul",
           Binary("sub",
                  Binary("sub", k["grad_output"], Binary("mul", k["x - mean"], k["proj_scale"])),
                  k["grad_mean"]),
           k["grad_scale"])

\* gradInput = gradOutput*gradScale
GradInputFixed(k) == Binary("mul", k["grad_output"], k["grad_scale"])

\* C4: backward computes gradInput = (gradOutput - (x-mean)*projScale - gradMean)*gradScale
\* exactly when the forward call normalised with freshly computed statistics
\* (use_input_stats true, or no running statistics given), and gradOutput*gradScale
\* exactly when it normalised with the running statistics.
C4_GradInputMatchesForwardMode ==
    (res.call = "backward" /\ res.err = "")
    => res.kept["grad_input"].v =
         (IF ctx.use_input_stats \/ ctx.running_mean = None
          THEN GradInputFresh(res.kept) ELSE GradInputFixed(res.kept)).v

\* C5: for every combination of weight, bias and input type, a backward whose graph
\* executes completes and returns a weight gradient iff weight is present and a bias
\* gradient iff bias is present, the number of registered outputs being the number of
\* results read.
C5_BackwardReturnsRegisteredGradients ==
    (res.call = "backward" /\ "results" \in DOMAIN res)
    => /\ res.err = ""
       /\ res.results = 1 + (IF ctx.weight # None THEN 1 ELSE 0)
                          + (IF ctx.bias # None THEN 1 ELSE 0)
       /\ (res.grad_weight # None) <=> (ctx.weight # None)
       /\ (res.grad_bias # None) <=> (ctx.bias # None)

\* the sums of the backward graph that reduce a parameter gradient once more
ParamGradSums(fd) ==
    {i \in DOMAIN fd : fd[i].op = "sum"
                       /\ fd[i].out \in {"grad_weight_reduced", "grad_bias_reduced"}}

\* C6: the backward graph sums gradWeight and gradBias over the batch axis if and only if
\* BATCH is in the role set; for role {CHANNEL} no sum over axis 0 of the per-channel
\* result is defined.
C6_ParamGradBatchSumIffBatchRole ==
    (res.call = "backward" /\ "fd" \in DOMAIN res)
    => \A i \in ParamGradSums(res.fd) :
          /\ "BATCH" \in ctx.stat_axes
          /\ res.fd[i].axes = <<0>>

\* the rank each instance variant accepts
AcceptedRank ==
    [InstanceNorm1dNVFuser |-> 3, InstanceNorm2dNVFuser |-> 4, InstanceNorm3dNVFuser |-> 5]

\* the rank of the input of the latest module forward
GivenRank == IF "rank" \in DOMAIN res THEN res.rank ELSE Len(LastCall.x.shape)

\* C7: the module forward of the 1-D, 2-D and 3-D instance variants raises for every
\* input whose rank is not 3, 4 and 5 respectively, before a graph is defined and leaving
\* the running statistics as they were; an input of the expected rank passes the check.
C7_RankRejectedBeforeGraph ==
    [][/\ (res'.call = "module_forward" /\ res'.err = "ValueError")
            => UNCHANGED <<running_mean, running_var, ctx, hist>>
       /\ res'.call = "module_forward"
            => /\ GivenRank' # AcceptedRank[layer.variant]
                    => /\ res'.err \in {"ValueError", "AssertionError"}
                       /\ "fd" \notin DOMAIN res'
               /\ (GivenRank' = AcceptedRank[layer.variant] /\ res'.err # "AssertionError")
                    => /\ res'.err = ""
                       /\ "fd" \in DOMAIN res']_vars

\* a training call updated the running statistics, then an input of another rank was
\* rejected
C7_Witness ==
    /\ res.call = "module_forward" /\ res.err = "ValueError"
    /\ res.rank # AcceptedRank[layer.variant]
    /\ Len(hist) = 1 /\ hist[1].use_input_stats
    /\ layer.track_running_stats
    /\ running_mean # Filled(layer.stat_axes, layer.num_features, layer.dtype, VZero)

NoDuplicates(s) == \A i, j \in DOMAIN s : s[i] = s[j] => i = j

AxesContract(r) ==
    /\ r.batch_dim = 0
    /\ r.channel_dim = IF args.channels_last THEN args.num_dims - 1 ELSE 1
    /\ NoDuplicates(r.stat_dims)
    /\ r.stat_dims_nobatch = SelectSeq(r.stat_dims, LAMBDA d : d # r.batch_dim)
    /\ Range(r.stat_dims) \cap Range(r.x_reduction_axes) = {}
    /\ Range(r.stat_dims) \cup Range(r.x_reduction_axes) = 0..(args.num_dims - 1)
    /\ NoDuplicates(r.x_reduction_axes)

\* C8: for every rank >= 2, layout flag and role set the resolver yields batch index 0,
\* channel index rank-1 (channel-last) or 1; statAxes has no duplicate; statAxesNoBatch is
\* statAxes without the batch index; reductionAxes is the complement of statAxes in
\* 0..rank-1; and the forward and backward resolvers yield the same lists.
C8_AxisRoleResolver ==
    /\ axes.fwd # None => AxesContract(axes.fwd)
    /\ axes.bwd # None => AxesContract(axes.bwd)
    /\ (axes.fwd # None /\ axes.bwd # None) => axes.fwd = axes.bwd

\* both resolvers ran on a channel-last rank-5 input with instance-style roles
C8_Witness ==
    /\ axes.fwd # None /\ axes.bwd # None
    /\ args.channels_last /\ args.num_dims = 5
    /\ args.stat_axes = {"BATCH", "CHANNEL"}
    /\ axes.fwd.stat_dims = <<0, 4>>
    /\ axes.fwd.x_reduction_axes = <<1, 2, 3>>

\* the variance of x over `axes` per kept index: squared deviations over (count - ddof)
RefVariance(x, axs, ddof) ==
    [k \in Indices(Project(x.shape, KeptAxes(Len(x.shape), axs))) |->
        LET S == {i \in DOMAIN x.v : Project(i, KeptAxes(Len(x.shape), axs)) = k}
            n == Cardinality(S)
            mu == VDiv(VSum(x.v, S), Int2V(n))
            sq == [i \in S |-> VMul(VSub(x.v[i], mu), VSub(x.v[i], mu))]
        IN  IF n - ddof <= 0 THEN NonFinite ELSE VDiv(VSum(sq, S), Int2V(n - ddof))]

\* the axes forward reduced over for the saved input
ReducedAxes ==
    FwdAxes(Len(ctx.x.shape), ctx.channels_last, ctx.stat_axes).x_reduction_axes

Rsqrt(f, eps) == [k \in DOMAIN f |-> VRsqrt(VAdd(f[k], Num(eps)))]

\* the operations of fd that produce `name`
Producers(fd, name) == {i \in DOMAIN fd : fd[i].out = name /\ fd[i].op # "cast"}

\* C9: in training mode the variance that normalises the batch carries Bessel's
\* correction iff unbiased is true, and the variance merged into the running variance is
\* the Bessel-corrected variance for both values of the flag: corrected once, never twice
\* and never not at all.
\* Stated with b2ub the real quotient num_features / (num_features - 1); it holds under
\* SpecStats for that reading of fd.ops.div and fails for a truncating one.
C9_BesselCorrectionOnce ==
    (/\ res.call = "forward" /\ res.err = ""
     /\ LastCall.use_input_stats \/ running_mean = None)
    => /\ res.kept["x_var"].v
            = RefVariance(ctx.x, ReducedAxes, IF layer.unbiased THEN 1 ELSE 0)
       /\ ctx.invstd.v
            = Rsqrt(RefVariance(ctx.x, ReducedAxes, IF layer.unbiased THEN 1 ELSE 0),
                    layer.eps)
       /\ running_mean # None
            => /\ res.kept["x_var_unbiased"].v = RefVariance(ctx.x, ReducedAxes, 1)
               /\ \A i \in Producers(res.fd, "current_var_hat") :
                     res.fd[i].op = "mul" /\ res.fd[i].a = "x_var_unbiased"
               /\ Producers(res.fd, "current_var_hat") # {}

\* a training call with running statistics on slices of more than one element whose
\* corrected and uncorrected variances differ
C9_Witness ==
    /\ res.call = "forward" /\ res.err = ""
    /\ LastCall.use_input_stats /\ running_mean # None
    /\ ~layer.unbiased
    /\ res.kept["x_var_unbiased"].v # res.kept["x_var"].v
    /\ \A k \in DOMAIN res.kept["x_var"].v : IsRational(res.kept["x_var_unbiased"].v[k])

\* C10: for an input of reduced precision every reduction of the forward and of the
\* backward graph takes an operand already cast to Float, and every value returned or
\* written to the running statistics is cast back to the input type; for a native input
\* no cast is inserted.
C10_ReducedPrecisionCasts ==
    "reduced" \in DOMAIN res
    => /\ IsReduced(layer.dtype)
            => /\ \A i \in DOMAIN res.reduced : res.reduced[i].dtype = "Float"
               /\ res.call = "forward"
                    => \A i \in DOMAIN res.outputs : res.outputs[i].dtype = layer.dtype
       /\ ~IsReduced(layer.dtype) => \A i \in DOMAIN res.fd : res.fd[i].op # "cast"


\* the same logical tensor packed channel-second
ChannelSecond(t) == TorchTensor(t.shape, ContiguousOrder(Len(t.shape)), t.v, t.dtype)

\* forward of the layer on x, without running statistics
LayerForward(x, use_input_stats) ==
    NormNVFuserFunction_forward(x, LayerWeight(layer), LayerBias(layer), None, None,
                                use_input_stats, Num(layer.momentum), Num(layer.eps),
                                layer.unbiased, layer.stat_axes)

\* backward for the latest forward with the input and the gradient packed channel-second
ChannelSecondBackward(grad_output) ==
    NormNVFuserFunction_backward(
        LayerForward(ChannelSecond(LastCall.x), LastCall.use_input_stats).ctx,
        ChannelSecond(grad_output))

\* the gradient handed to the latest backward
LastGradOutput == CHOOSE g \in GradOutputs(LayerForward(LastCall.x, LastCall.use_input_stats).out) : TRUE

\* C11: for a channels-last input of rank 4 or 5 the permutation on entry and the one
\* before returning are inverses, in forward and in backward: the returned tensor has the
\* logical shape of the input and every element equals the one obtained for the same data
\* given in channel-second layout.
C11_ChannelsLastRoundTrip ==
    /\ \A r \in 4..5 : \A i \in 1..r :
          ToChannelsLastOrder(r)[FromChannelsLastOrder(r)[i] + 1] = i - 1
    /\ (res.call = "forward"
        /\ (is_channels_last(LastCall.x) \/ is_channels_last_3d(LastCall.x)))
        => /\ res.err = ""
           /\ permute(ctx.x, FromChannelsLastOrder(Len(ctx.x.shape))) = LastCall.x
           /\ res.out.shape = LastCall.x.shape
           /\ res.out.v = LayerForward(ChannelSecond(LastCall.x), LastCall.use_input_stats).out.v
    /\ (res.call = "backward" /\ ctx.channels_last)
        => /\ res.err = ChannelSecondBackward(LastGradOutput).err
           /\ res.err = ""
                => /\ res.grad_input.shape = LastCall.x.shape
                   /\ res.grad_input.v = ChannelSecondBackward(LastGradOutput).grad_input.v

\* forward and backward both returned for a channels-last rank-5 input with weight and bias
C11_Witness ==
    /\ res.call = "backward" /\ res.err = ""
    /\ ctx.channels_last /\ Len(LastCall.x.shape) = 5
    /\ layer.has_weight
    /\ res.grad_input.shape = LastCall.x.shape
    /\ is_channels_last_3d(res.grad_input)

\* the index idx of x with the channel entry (axis 1) moved to axis p
MoveChannel(idx, p) ==
    [i \in 1..Len(idx) |-> IF i = p + 1 THEN idx[2]
                           ELSE IF i < p + 1 THEN (IF i = 1 THEN idx[1] ELSE idx[i + 1])
                           ELSE idx[i]]

\* t holds the data of x with the channel axis of x at axis p
ChannelAt(t, x, p) ==
    /\ Len(t.shape) = Len(x.shape)
    /\ t.shape = MoveChannel(x.shape, p)
    /\ \A idx \in DOMAIN x.v : t.v[MoveChannel(idx, p)] = x.v[idx]

\* the var_mean operations of the graph fd
VarMeans(fd) == {i \in DOMAIN fd : fd[i].op = "var_mean"}

\* a forward on a channels-last input computed mean and variance on a tensor that has the
\* channel at axis p, treated p as the channel axis and returned in channels-last order
ChannelsLastHandled(p) ==
    /\ res.err = ""
    /\ ChannelAt(ctx.x, LastCall.x, p)
    /\ VarMeans(res.fd) # {}
    /\ \A i \in VarMeans(res.fd) :
          /\ res.fd[i].a = "x"
          /\ ("CHANNEL" \in layer.stat_axes) <=> (p \notin Range(res.fd[i].axes))
    /\ res.out.shape = LastCall.x.shape
    /\ is_channels_last(res.out) \/ is_channels_last_3d(res.out)

\* the latest call is a forward on a channels-last input
ChannelsLastForward ==
    /\ res.call = "forward"
    /\ is_channels_last(LastCall.x) \/ is_channels_last_3d(LastCall.x)

\* C12 as stated: for an input in channels-last memory order the axes are permuted so
\* that the channel axis is at logical index 1 of the tensor on which mean and variance
\* are computed, and the result is permuted back to channels-last order before it is
\* returned.
C12_ChannelAtIndexOne == ChannelsLastForward => ChannelsLastHandled(1)

\* C12 amended: for an input in channels-last memory order the axes are permuted so that
\* the channel axis is the last logical index (rank - 1) of the tensor on which mean and
\* variance are computed, which is the channel index the resolver takes, and the result
\* is permuted back to channels-last order before it is returned.
C12_ChannelAtLastIndex ==
    ChannelsLastForward
    => /\ ChannelsLastHandled(Len(LastCall.x.shape) - 1)
       /\ FwdAxes(Len(ctx.x.shape), ctx.channels_last, ctx.stat_axes).channel_dim
            = Len(LastCall.x.shape) - 1

\* a forward on a channels-last rank-4 input with per-channel statistics returned
C12_Witness ==
    /\ ChannelsLastForward /\ res.err = ""
    /\ Len(LastCall.x.shape) = 4
    /\ "CHANNEL" \in layer.stat_axes
    /\ ctx.x.shape = <<2, 1, 2, 2>>
    /\ is_channels_last(res.out)

\* C13: with channels-last handling active, a result of a rank other than 4 and 5 makes
\* forward, and backward for gradInput, raise instead of returning a tensor; for rank 4 and
\* rank 5 only a tensor that is contiguous in the channels-last pattern of its rank is
\* returned.
C13_ChannelsLastRankChecked ==
    (res.call \in {"forward", "backward"} /\ args.channels_last)
    => /\ Len(args.x.shape) \notin {4, 5}
            => res.err = "AssertionError" /\ res.out = None
       /\ res.err = ""
            => /\ res.out # None
               /\ Len(res.out.shape) = 4 => is_channels_last(res.out)
               /\ Len(res.out.shape) = 5 => is_channels_last_3d(res.out)

\* backward raised for a channels-last result of rank 3
C13_Witness ==
    /\ res.call = "backward" /\ args.channels_last
    /\ Len(args.x.shape) = 3
    /\ res.err = "AssertionError" /\ res.out = None

\* C14: a training-mode forward with role {CHANNEL}, batch size 1 and one reduced element
\* per statistic (numFeatures = 1) raises at the variance correction (division by
\* numFeatures - 1 = 0): it returns no output and writes no running statistic.
C14_SingleElementRaises ==
    (/\ res.call = "forward" /\ Len(hist) = 1
     /\ layer.stat_axes = {"CHANNEL"}
     /\ LastCall.use_input_stats
     /\ LastCall.x.shape[1] = 1
     /\ Prod(LastCall.x.shape) = layer.num_features)
    => /\ res.err # ""
       /\ "out" \notin DOMAIN res
       /\ running_mean \in {None, Filled(layer.stat_axes, layer.num_features, layer.dtype, VZero)}

\* x with every element outside the (n, c) slice changed
OtherSlicesChanged(x, n, c) ==
    [x EXCEPT !.v = Elements([idx \in DOMAIN x.v |->
        IF idx[1] = n /\ idx[2] = c THEN x.v[idx]
        ELSE VAdd(x.v[idx], Int2V(1 + idx[Len(idx)]))])]

\* a parameter with the entry of every channel but c changed
OtherChannelsChanged(w, c) ==
    IF w = None THEN None
    ELSE [w EXCEPT !.v = Elements([idx \in DOMAIN w.v |->
            IF idx = <<c>> THEN w.v[idx] ELSE VAdd(w.v[idx], Int2V(3))])]

\* forward of the layer on other data: the (n, c) slice of x and the weight and bias of
\* channel c kept, everything else changed
ForwardOnOthers(n, c) ==
    NormNVFuserFunction_forward(OtherSlicesChanged(LastCall.x, n, c),
                                OtherChannelsChanged(LayerWeight(layer), c),
                                OtherChannelsChanged(LayerBias(layer), c),
                                None, None, LastCall.use_input_stats,
                                Num(layer.momentum), Num(layer.eps),
                                layer.unbiased, layer.stat_axes)

\* C15: for role {BATCH, CHANNEL} with freshly computed statistics the output at each
\* (batch, channel) slice depends only on the input values of that slice, through the mean
\* and variance of that slice, and on the weight and bias entry of that channel: changing
\* the input in every other slice and the parameters of every other channel leaves it
\* unchanged.
C15_InstanceSlicesIndependent ==
    (/\ res.call = "forward" /\ res.err = ""
     /\ layer.stat_axes = {"BATCH", "CHANNEL"})
    => \A n \in 0..(LastCall.x.shape[1] - 1), c \in 0..(LastCall.x.shape[2] - 1) :
          \E r \in {ForwardOnOthers(n, c)} :
             /\ r.err = ""
             /\ <<n, c>> \in DOMAIN r.ctx.mean.v
             /\ r.ctx.mean.v[<<n, c>>] = ctx.mean.v[<<n, c>>]
             /\ r.ctx.invstd.v[<<n, c>>] = ctx.invstd.v[<<n, c>>]
             /\ \A idx \in DOMAIN res.out.v :
                   (idx[1] = n /\ idx[2] = c) => r.out.v[idx] = res.out.v[idx]

\* an instance-style forward with weight and bias on two samples of two channels whose
\* slices have different means
C15_Witness ==
    /\ res.call = "forward" /\ res.err = ""
    /\ layer.stat_axes = {"BATCH", "CHANNEL"}
    /\ layer.has_weight /\ layer.has_bias
    /\ LastCall.x.shape[1] = 2 /\ LastCall.x.shape[2] = 2
    /\ ctx.mean.v[<<0, 0>>] # ctx.mean.v[<<1, 1>>]
    /\ ForwardOnOthers(0, 0).out.v # res.out.v

\* per-instance updates m*stat_n + (1-m)*running, summed over the batch axis and divided
\* by the batch size, indexed by the axes of the running statistic
BatchAveraged(stat, running, m, N) ==
    [k \in DOMAIN running.v |->
        VDiv(VSum([n \in 0..(N - 1) |->
                      VAdd(VMul(Num(m), stat.v[<<n>> \o k]),
                           VMul(Num(OneMinus(m)), running.v[k]))], 0..(N - 1)),
             Int2V(N))]

\* C16: when BATCH is in the role set and running statistics are given in training mode,
\* the value written to each running statistic is the per-instance updates
\* m*stat_n + (1-m)*running summed over the batch axis and divided by the batch size, and
\* it has the shape of the running statistic, without a batch dimension.
C16_BatchRoleRunningAverage ==
    [][(/\ Len(hist') = Len(hist) + 1
        /\ "BATCH" \in layer.stat_axes
        /\ running_mean # None /\ running_var # None
        /\ hist'[Len(hist')].use_input_stats
        /\ res'.err = "")
       => \E N \in {hist'[Len(hist')].x.shape[1]} :
            /\ running_mean'.shape = ParamShape(layer.stat_axes, layer.num_features)
            /\ running_var'.shape = ParamShape(layer.stat_axes, layer.num_features)
            /\ running_mean'.v
                 = BatchAveraged(res'.kept["x_mean"], running_mean, layer.momentum, N)
            /\ running_var'.v
                 = BatchAveraged(res'.kept["x_var_unbiased"], running_var,
                                 layer.momentum, N)]_vars

\* two training calls on a batch of two with running statistics, for a role set with
\* BATCH: the second call averaged its per-instance updates into a running mean that the
\* first call had already moved
C16_Witness ==
    /\ Len(hist) = 2
    /\ "BATCH" \in layer.stat_axes
    /\ hist[1].use_input_stats /\ hist[2].use_input_stats
    /\ hist[2].x.shape[1] = 2
    /\ res.call = "forward" /\ res.err = ""
    /\ running_mean # None /\ running_var # None
    /\ running_mean # Filled(layer.stat_axes, layer.num_features, layer.dtype, VZero)
    /\ res.kept["x_mean"].v[<<0>> \o (CHOOSE k \in DOMAIN running_mean.v : TRUE)]
         # res.kept["x_mean"].v[<<1>> \o (CHOOSE k \in DOMAIN running_mean.v : TRUE)]

\* the axes along which the forward graph broadcast mean and invstd for the saved call
ForwardStatDims ==
    IF FwdUsesInputStats(ctx.use_input_stats, ctx.running_mean)
    THEN FwdAxes(Len(ctx.x.shape), ctx.channels_last, ctx.stat_axes).stat_dims
    ELSE FwdAxes(Len(ctx.x.shape), ctx.channels_last, ctx.stat_axes).stat_dims_nobatch

\* the rank of the operand of a broadcast of the backward graph: a saved statistic, the
\* weight, or a sum over x_reduction_axes combined with the saved invstd
BroadcastOperandRank(ins) ==
    IF ins.a \in {"mean", "invstd"} THEN Len(ctx.mean.shape)
    ELSE IF ins.out = "weight_bcast" THEN Len(ctx.weight.shape)
    ELSE Max(Len(ctx.invstd.shape),
             Len(BwdAxes(Len(ctx.x.shape), ctx.channels_last, ctx.stat_axes).stat_dims))

\* C17: in backward, for every role set and layout, mean, invstd, grad_mean and proj_scale
\* are broadcast along the axes along which forward broadcast the statistics, the weight
\* along stat_dims_nobatch, and every broadcast is given as many axes as its operand has
\* dimensions.
C17_BackwardBroadcastAxes ==
    (res.call = "backward" /\ "fd" \in DOMAIN res)
    => \A i \in DOMAIN res.fd :
          res.fd[i].op = "broadcast_in_dim"
          => /\ res.fd[i].axes
                  = (IF res.fd[i].out = "weight_bcast"
                     THEN BwdAxes(Len(ctx.x.shape), ctx.channels_last,
                                  ctx.stat_axes).stat_dims_nobatch
                     ELSE ForwardStatDims)
             /\ Len(res.fd[i].axes) = BroadcastOperandRank(res.fd[i])

\* the index of the running statistics and parameters that belongs to element idx of x
StatKey(idx) == IF "CHANNEL" \in layer.stat_axes THEN <<idx[2]>> ELSE <<>>

\* (x - running_mean)*rsqrt(running_var + eps), then the weight, then the bias
InferenceValue(x, idx) ==
    LET k == StatKey(idx)
        normed == VMul(VSub(x.v[idx], running_mean.v[k]),
                       VRsqrt(VAdd(running_var.v[k], Num(layer.eps))))
        scaled == IF layer.has_weight THEN VMul(normed, LayerWeight(layer).v[k]) ELSE normed
    IN  IF layer.has_bias THEN VAdd(scaled, LayerBias(layer).v[k]) ELSE scaled

\* x with every element outside batch index n changed
OtherBatchesChanged(x, n) ==
    [x EXCEPT !.v = Elements([idx \in DOMAIN x.v |->
        IF idx[1] = n THEN x.v[idx] ELSE VAdd(x.v[idx], Int2V(1 + idx[2]))])]

\* the latest forward call repeated on other data at every batch index but n
ForwardOnOtherBatches(n) ==
    NormNVFuserFunction_forward(OtherBatchesChanged(LastCall.x, n),
                                LayerWeight(layer), LayerBias(layer),
                                running_mean, running_var, LastCall.use_input_stats,
                                Num(layer.momentum), Num(layer.eps),
                                layer.unbiased, layer.stat_axes)

\* C18: in inference mode (use_input_stats false, running statistics given) the output is
\* (x - running_mean)*rsqrt(running_var + eps) with the statistics indexed by
\* stat_dims_nobatch, then scaled by the weight and shifted by the bias when present; the
\* saved pair is (running_mean, rsqrt(running_var + eps)); and the output at a batch index
\* is unchanged when the input at the other batch indices changes.
C18_InferenceUsesRunningStats ==
    (/\ res.call = "forward" /\ res.err = ""
     /\ ~LastCall.use_input_stats
     /\ running_mean # None /\ running_var # None)
    => /\ DOMAIN res.out.v = DOMAIN LastCall.x.v
       /\ \A idx \in DOMAIN res.out.v : res.out.v[idx] = InferenceValue(LastCall.x, idx)
       /\ ctx.mean.v = running_mean.v
       /\ ctx.invstd.v = [k \in DOMAIN running_var.v |->
                             VRsqrt(VAdd(running_var.v[k], Num(layer.eps)))]
       /\ \A n \in 0..(LastCall.x.shape[1] - 1) :
             \E r \in {ForwardOnOtherBatches(n)} :
                /\ r.err = ""
                /\ \A idx \in DOMAIN res.out.v :
                      idx[1] = n => r.out.v[idx] = res.out.v[idx]

\* an inference call on a batch of two, with weight and bias, after a training call had
\* moved the running mean away from zero
C18_Witness ==
    /\ Len(hist) = 2
    /\ hist[1].use_input_stats /\ ~hist[2].use_input_stats
    /\ res.call = "forward" /\ res.err = ""
    /\ running_mean # None /\ running_var # None
    /\ layer.has_weight /\ layer.has_bias
    /\ hist[2].x.shape[1] = 2
    /\ running_mean # Filled(layer.stat_axes, layer.num_features, layer.dtype, VZero)
    /\ OtherBatchesChanged(hist[2].x, 0) # hist[2].x

\* the inputs a graph defines, in the order of their definition
DefinedInputs(fd) == SelectSeq(fd, LAMBDA ins : ins.op \in {"define_tensor", "define_scalar"})

\* the Python variable that holds the runtime value t, in place of the value
Named(name, t) == IF t = None THEN None ELSE [name |-> name]

\* the i-th runtime value is the one the i-th defined input was created for
BoundInOrder(defined, inputs) ==
    /\ Len(defined) = Len(inputs)
    /\ \A i \in DOMAIN defined :
          IF defined[i].op = "define_scalar"
          THEN "scalar" \in DOMAIN inputs[i] /\ inputs[i].scalar.name = defined[i].out
          ELSE "name" \in DOMAIN inputs[i] /\ inputs[i].name = defined[i].out

\* the list `inputs` of the latest forward call, by variable
ForwardInputs ==
    FwdInputs(Named("x", LastCall.x), Named("weight", LayerWeight(layer)),
              Named("bias", LayerBias(layer)), Named("running_mean", running_mean),
              Named("running_var", running_var),
              [name |-> "momentum"], [name |-> "eps"])

\* the list `inputs` of the latest backward call, by variable
BackwardInputs ==
    BwdInputs(Named("x", ctx.x), Named("weight", ctx.weight), Named("bias", ctx.bias),
              Named("running_mean", ctx.running_mean),
              Named("running_var", ctx.running_var),
              [name |-> "mean"], [name |-> "invstd"], [name |-> "grad_output"])

\* C19: for every combination of weight, bias and running statistics given or not, the
\* runtime values handed to fd.execute have the length and the order of the inputs the
\* graph of that call defines: the tensors and then the scalars momentum and eps in
\* forward, the tensors ending with mean, invstd and grad_output in backward.
C19_InputsMatchDefinitions ==
    /\ (res.call = "forward" /\ "fd" \in DOMAIN res)
       => \E d \in {DefinedInputs(res.fd)} :
            /\ BoundInOrder(d, ForwardInputs)
            /\ Len(d) >= 3
            /\ d[1].op = "define_tensor" /\ d[1].out = "x"
            /\ \A i \in 1..(Len(d) - 2) : d[i].op = "define_tensor"
            /\ d[Len(d) - 1].op = "define_scalar" /\ d[Len(d) - 1].out = "momentum"
            /\ d[Len(d)].op = "define_scalar" /\ d[Len(d)].out = "eps"
    /\ (res.call = "backward" /\ "fd" \in DOMAIN res)
       => \E d \in {DefinedInputs(res.fd)} :
            /\ BoundInOrder(d, BackwardInputs)
            /\ Len(d) >= 4
            /\ \A i \in DOMAIN d : d[i].op = "define_tensor"
            /\ d[1].out = "x"
            /\ d[Len(d) - 2].out = "mean"
            /\ d[Len(d) - 1].out = "invstd"
            /\ d[Len(d)].out = "grad_output"

\* a backward graph was defined for a layer with weight, bias and both running statistics
C19_Witness ==
    /\ res.call = "backward" /\ "fd" \in DOMAIN res
    /\ layer.has_weight /\ layer.has_bias
    /\ running_mean # None /\ running_var # None
    /\ Len(DefinedInputs(res.fd)) = 8

\* the sampler as it was constructed, and the one constructed with micro-batch size b
\* from the same total samples, consumed samples, rank and data-parallel size
SamplerWith(b) ==
    MegatronPretrainingRandomSampler(args.total_samples, args.consumed_samples, b,
                                     args.data_parallel_rank, args.data_parallel_size)

\* every batch the loop yields from rest
RECURSIVE Batches(_, _)
Batches(rest, micro_batch_size) ==
    LET c == Collect(<<>>, rest, micro_batch_size)
    IN  IF c.yield THEN <<c.batch>> \o Batches(c.rest, micro_batch_size) ELSE <<>>

\* torch.cat of the first k batches
RECURSIVE Concat(_, _)
Concat(batches, k) == IF k = 0 THEN <<>> ELSE Concat(batches, k - 1) \o batches[k]

\* the first k batches of the running sampler and the first k*a/b batches of the sampler
\* with micro-batch size b hold the same indices in the same order
SameStream(other, k, b) ==
    /\ Len(other) >= (k * sampler.micro_batch_size) \div b
    /\ Concat(sampler.yielded, k) = Concat(other, (k * sampler.micro_batch_size) \div b)

====
